---------------------------- MODULE Spec2Model ----------------------------
(***************************************************************************)
(* Model of the document chunking pipeline of the VINO API                 *)
(* (app/services/chunking_service.py and its callers).                     *)
(*                                                                         *)
(* Text is a sequence of symbols.  A symbol is one character of the        *)
(* program's strings (" ", "\n", "\r", "-", ".", "!", "[", "]", a digit)   *)
(* or an opaque run of letters (a word such as "Intro" or "image"), or the *)
(* five characters "[SEP]" the program writes between a heading and its    *)
(* body.  Every string function of the program is modelled on symbols by   *)
(* what it does to the characters.                                         *)
(***************************************************************************)
EXTENDS Integers, Sequences, FiniteSets, TLC

NL   == "\n"
CR   == "\r"
SP   == " "
DASH == "-"
DOT  == "."
BANG == "!"
QM   == "?"
LBR  == "["
RBR  == "]"
SEP  == "[SEP]"
IMAGE == "image"
FIGURE == "figure"
TABLE == "table"
DIGIT == "1"

\* Python's str.isspace() on one character.
IsSpace(c) == c \in {SP, NL, CR}

\* ---------------------------------------------------------------------------
\* Python string primitives on symbol sequences
\* ---------------------------------------------------------------------------

\* s[i:] and s[:i] with 1-based, inclusive positions.
From(s, i) == IF i > Len(s) THEN << >> ELSE SubSeq(s, i, Len(s))
Upto(s, i) == IF i < 1 THEN << >> ELSE SubSeq(s, 1, i)

\* s.startswith(pat, i-1)
StartsAt(s, i, pat) ==
    /\ i >= 1
    /\ i + Len(pat) - 1 <= Len(s)
    /\ \A k \in 1..Len(pat) : s[i + k - 1] = pat[k]

\* pat in s
Contains(s, pat) == \E i \in 1..(Len(s) + 1) : StartsAt(s, i, pat)

\* s.find(pat) + 1, or 0 when pat does not occur.
Find(s, pat) ==
    IF Contains(s, pat)
    THEN CHOOSE i \in 1..(Len(s) + 1) :
            /\ StartsAt(s, i, pat)
            /\ \A j \in 1..(i - 1) : ~StartsAt(s, j, pat)
    ELSE 0

\* s.replace(pat, rep): leftmost, non-overlapping, one pass.
RECURSIVE StrReplace(_, _, _)
StrReplace(s, pat, rep) ==
    IF s = << >> THEN << >>
    ELSE IF StartsAt(s, 1, pat)
         THEN rep \o StrReplace(From(s, Len(pat) + 1), pat, rep)
         ELSE <<s[1]>> \o StrReplace(Tail(s), pat, rep)

\* s.lstrip(chars), s.rstrip(chars), s.strip(chars) for a set of characters.
RECURSIVE LStripSet(_, _)
LStripSet(s, cs) ==
    IF s # << >> /\ s[1] \in cs THEN LStripSet(Tail(s), cs) ELSE s

RECURSIVE RStripSet(_, _)
RStripSet(s, cs) ==
    IF s # << >> /\ s[Len(s)] \in cs
    THEN RStripSet(SubSeq(s, 1, Len(s) - 1), cs) ELSE s

StripSet(s, cs) == RStripSet(LStripSet(s, cs), cs)

\* s.strip()
Strip(s) == StripSet(s, {SP, NL, CR})

\* sep.join(parts)
RECURSIVE Join(_, _)
Join(parts, sep) ==
    IF parts = << >> THEN << >>
    ELSE IF Len(parts) = 1 THEN parts[1]
    ELSE parts[1] \o sep \o Join(Tail(parts), sep)

\* s.split(sep) for a non-empty separator: always at least one part.
RECURSIVE StrSplit(_, _)
StrSplit(s, sep) ==
    LET i == Find(s, sep) IN
    IF i = 0 THEN <<s>>
    ELSE <<Upto(s, i - 1)>> \o StrSplit(From(s, i + Len(sep)), sep)

\* s.split(sep, 1)
StrSplit1(s, sep) ==
    LET i == Find(s, sep) IN
    IF i = 0 THEN <<s>>
    ELSE <<Upto(s, i - 1), From(s, i + Len(sep))>>

\* Length of the maximal run of characters of cs that starts at s[i].
RECURSIVE RunLen(_, _, _)
RunLen(s, i, cs) ==
    IF i <= Len(s) /\ s[i] \in cs THEN 1 + RunLen(s, i + 1, cs) ELSE 0

\* s.split(): the maximal runs of non-whitespace characters.
RECURSIVE Words(_)
Words(s) ==
    LET t == LStripSet(s, {SP, NL, CR}) IN
    IF t = << >> THEN << >>
    ELSE LET n == CHOOSE k \in 1..Len(t) :
                     /\ \A j \in 1..k : ~IsSpace(t[j])
                     /\ (k = Len(t) \/ IsSpace(t[k + 1]))
         IN <<Upto(t, n)>> \o Words(From(t, n + 1))

\* ---------------------------------------------------------------------------
\* Text Normalizer: cleanup_plaintext and the patterns of Settings
\* ---------------------------------------------------------------------------

\* LINE_ENDING_PATTERN.sub('\n', text), pattern \r\n|\r
RECURSIVE LineEndingSub(_)
LineEndingSub(s) ==
    IF s = << >> THEN << >>
    ELSE IF StartsAt(s, 1, <<CR, NL>>) THEN <<NL>> \o LineEndingSub(From(s, 3))
    ELSE IF s[1] = CR THEN <<NL>> \o LineEndingSub(Tail(s))
    ELSE <<s[1]>> \o LineEndingSub(Tail(s))

\* NEWLINE_REPLACE_PATTERN matches at position i: (?<!\n)\n(?!(\n|- ))
NewlineReplaceMatch(s, i) ==
    /\ s[i] = NL
    /\ (i = 1 \/ s[i - 1] # NL)
    /\ ~StartsAt(s, i + 1, <<NL>>)
    /\ ~StartsAt(s, i + 1, <<DASH, SP>>)

\* The substitution with the pattern (?<!\n)\n(?!\n), which does not spare
\* the newline in front of a bullet.
NewlineReplaceNoBullet(s) ==
    [i \in 1..Len(s) |->
        IF s[i] = NL /\ (i = 1 \/ s[i - 1] # NL) /\ ~StartsAt(s, i + 1, <<NL>>)
        THEN SP ELSE s[i]]

\* NEWLINE_REPLACE_PATTERN.sub(' ', text): the look-arounds read the
\* text being scanned, not the text being built.
NewlineReplaceSub(s) ==
    [i \in 1..Len(s) |-> IF NewlineReplaceMatch(s, i) THEN SP ELSE s[i]]

\* PARAGRAPH_BREAK_PATTERN.sub('\n\n', text), pattern \n{2,}
RECURSIVE ParagraphBreakSub(_)
ParagraphBreakSub(s) ==
    IF s = << >> THEN << >>
    ELSE LET n == RunLen(s, 1, {NL}) IN
         IF n >= 2 THEN <<NL, NL>> \o ParagraphBreakSub(From(s, n + 1))
         ELSE <<s[1]>> \o ParagraphBreakSub(Tail(s))

\* WHITESPACE_PATTERN.sub(' ', text), pattern (?<!\n) +  ; prev is the
\* character before s in the text being scanned ("" at the start).
RECURSIVE WhitespaceSubFrom(_, _)
WhitespaceSubFrom(prev, s) ==
    IF s = << >> THEN << >>
    ELSE IF s[1] = SP /\ prev # NL
         THEN LET n == RunLen(s, 1, {SP}) IN
              <<SP>> \o WhitespaceSubFrom(SP, From(s, n + 1))
         ELSE <<s[1]>> \o WhitespaceSubFrom(s[1], Tail(s))

WhitespaceSub(s) == WhitespaceSubFrom("", s)

\* text.replace("[image]", "").replace("[]", "")
RemoveArtifacts(text) ==
    StrReplace(StrReplace(text, <<LBR, IMAGE, RBR>>, << >>), <<LBR, RBR>>, << >>)

\* Settings.REMOVE_ARTIFACTS
REMOVE_ARTIFACTS ==
    << <<LBR, IMAGE, RBR>>, <<LBR, RBR>>, <<LBR, FIGURE, RBR>>, <<LBR, TABLE, RBR>> >>

cleanup_plaintext(text) ==
    WhitespaceSub(ParagraphBreakSub(NewlineReplaceSub(LineEndingSub(
        RemoveArtifacts(text)))))

\* ---------------------------------------------------------------------------
\* Heading Segmenter: split_text
\* ---------------------------------------------------------------------------

\* re.split(r'\r?\n', toc)
RECURSIVE SplitLinesFrom(_, _)
SplitLinesFrom(acc, s) ==
    IF s = << >> THEN <<acc>>
    ELSE IF StartsAt(s, 1, <<CR, NL>>) THEN <<acc>> \o SplitLinesFrom(<< >>, From(s, 3))
    ELSE IF s[1] = NL THEN <<acc>> \o SplitLinesFrom(<< >>, Tail(s))
    ELSE SplitLinesFrom(Append(acc, s[1]), Tail(s))

SplitLines(s) == SplitLinesFrom(<< >>, s)

\* line.strip('- \n\r').strip(), kept when not empty
RECURSIVE CleanedLines(_)
CleanedLines(toc_lines) ==
    IF toc_lines = << >> THEN << >>
    ELSE LET cleaned_line == Strip(StripSet(toc_lines[1], {DASH, SP, NL, CR})) IN
         (IF cleaned_line # << >> THEN <<cleaned_line>> ELSE << >>)
            \o CleanedLines(Tail(toc_lines))

\* The headings list split_text extracts from the TOC.
TocHeadings(toc) ==
    IF Strip(toc) # << >> THEN CleanedLines(SplitLines(toc)) ELSE << >>

\* x in list
InList(list, x) == \E i \in 1..Len(list) : list[i] = x

\* Variant of ListRemove that leaves the list as it is.
ListRemoveNothing(list, x) == list

\* list.remove(x): the list without the first occurrence of x
ListRemove(list, x) ==
    LET i == CHOOSE k \in 1..Len(list) :
                 list[k] = x /\ \A j \in 1..(k - 1) : list[j] # x
    IN SubSeq(list, 1, i - 1) \o SubSeq(list, i + 1, Len(list))

\* f"{heading} [SEP] {content}"
WithHeading(heading, content) == heading \o <<SP, SEP, SP>> \o content

\* Variant of SplitTextStep that keeps the accumulated content when a new
\* heading starts.
SplitTextStepKeepContent(st, raw_para) ==
    LET para == Strip(raw_para) IN
    IF para = << >> THEN st
    ELSE IF st.headings # << >> /\ InList(st.headings, para)
    THEN [headings        |-> ListRemove(st.headings, para),
          current_heading |-> para,
          current_content |-> st.current_content,
          text_chunks     |->
              IF st.current_heading # << >> /\ st.current_content # << >>
              THEN Append(st.text_chunks,
                          WithHeading(st.current_heading,
                                      Join(st.current_content, <<SP>>)))
              ELSE st.text_chunks]
    ELSE [st EXCEPT !.current_content = Append(@, para)]

\* One iteration of the paragraph loop of split_text on loop state st.
SplitTextStep(st, raw_para) ==
    LET para == Strip(raw_para) IN
    IF para = << >> THEN st
    ELSE IF st.headings # << >> /\ InList(st.headings, para)
    THEN [headings        |-> ListRemove(st.headings, para),
          current_heading |-> para,
          current_content |-> << >>,
          text_chunks     |->
              IF st.current_heading # << >> /\ st.current_content # << >>
              THEN Append(st.text_chunks,
                          WithHeading(st.current_heading,
                                      Join(st.current_content, <<SP>>)))
              ELSE st.text_chunks]
    ELSE [st EXCEPT !.current_content = Append(@, para)]

RECURSIVE SplitTextLoop(_, _)
SplitTextLoop(st, paragraphs) ==
    IF paragraphs = << >> THEN st
    ELSE SplitTextLoop(SplitTextStep(st, paragraphs[1]), Tail(paragraphs))

\* Variant of split_text that emits the last heading whether or not content
\* follows it.
SplitTextEmitLastHeading(toc, text) ==
    LET st == SplitTextLoop([headings        |-> TocHeadings(toc),
                             current_heading |-> << >>,
                             current_content |-> << >>,
                             text_chunks     |-> << >>],
                            StrSplit(text, <<NL, NL>>))
    IN  IF st.current_heading # << >>
        THEN Append(st.text_chunks,
                    WithHeading(st.current_heading, Join(st.current_content, <<SP>>)))
        ELSE IF st.current_content # << >> /\ st.current_heading = << >>
        THEN Append(st.text_chunks, Join(st.current_content, <<SP>>))
        ELSE st.text_chunks

split_text(toc, text) ==
    LET st == SplitTextLoop([headings        |-> TocHeadings(toc),
                             current_heading |-> << >>,
                             current_content |-> << >>,
                             text_chunks     |-> << >>],
                            StrSplit(text, <<NL, NL>>))
    IN  IF st.current_heading # << >> /\ st.current_content # << >>
        THEN Append(st.text_chunks,
                    WithHeading(st.current_heading, Join(st.current_content, <<SP>>)))
        ELSE IF st.current_content # << >> /\ st.current_heading = << >>
        THEN Append(st.text_chunks, Join(st.current_content, <<SP>>))
        ELSE st.text_chunks

\* ---------------------------------------------------------------------------
\* Tokenizer collaborator
\* ---------------------------------------------------------------------------

\* encoding.encode(text): the tokenizer is a collaborator of the chunker.
\* Here a token is one character that is not whitespace, one word symbol or
\* the "[SEP]" literal, together with the whitespace before it; whitespace
\* at the end of the text is a token of its own.  A token is written as the
\* text it stands for, so encoding.decode is concatenation.
RECURSIVE EncodeFrom(_, _)
EncodeFrom(ws, text) ==
    IF text = << >> THEN (IF ws # << >> THEN <<ws>> ELSE << >>)
    ELSE IF IsSpace(text[1]) THEN EncodeFrom(Append(ws, text[1]), Tail(text))
    ELSE <<Append(ws, text[1])>> \o EncodeFrom(<< >>, Tail(text))

Encode(text) == EncodeFrom(<< >>, text)

\* encoding.decode(tokens)
Decode(tokens) == Join(tokens, << >>)

\* len(encoding.encode(text))
TokenCount(text) == Len(Encode(text))

\* ---------------------------------------------------------------------------
\* Oversized-Chunk Splitter
\* ---------------------------------------------------------------------------

\* Length of the match of BULLET_NUMBERED_PATTERN (\n- |\n\d+\.) at s[i],
\* 0 when it does not match there.
BulletMatchLen(s, i) ==
    IF i > Len(s) \/ s[i] # NL THEN 0
    ELSE IF StartsAt(s, i + 1, <<DASH, SP>>) THEN 3
    ELSE LET d == RunLen(s, i + 1, {DIGIT}) IN
         IF d >= 1 /\ StartsAt(s, i + 1 + d, <<DOT>>) THEN d + 2 ELSE 0

\* BULLET_NUMBERED_PATTERN.search(content)
BulletSearch(content) == \E i \in 1..Len(content) : BulletMatchLen(content, i) > 0

\* BULLET_NUMBERED_PATTERN.split(content)
RECURSIVE BulletSplitFrom(_, _)
BulletSplitFrom(acc, s) ==
    IF s = << >> THEN <<acc>>
    ELSE LET n == BulletMatchLen(s, 1) IN
         IF n > 0 THEN <<acc>> \o BulletSplitFrom(<< >>, From(s, n + 1))
         ELSE BulletSplitFrom(Append(acc, s[1]), Tail(s))

BulletSplit(content) == BulletSplitFrom(<< >>, content)

\* SENTENCE_SPLIT_PATTERN.split(content), pattern (?<=[.!?])\s+ ; prev is
\* the character before s ("" at the start).
RECURSIVE SentenceSplitFrom(_, _, _)
SentenceSplitFrom(acc, prev, s) ==
    IF s = << >> THEN <<acc>>
    ELSE IF IsSpace(s[1]) /\ prev \in {DOT, BANG, QM}
         THEN LET n == RunLen(s, 1, {SP, NL, CR}) IN
              <<acc>> \o SentenceSplitFrom(<< >>, s[n], From(s, n + 1))
         ELSE SentenceSplitFrom(Append(acc, s[1]), s[1], Tail(s))

SentenceSplit(content) == SentenceSplitFrom(<< >>, "", content)

\* f"{heading} [SEP] {body}".strip() if heading else body.strip()
\* Variant of FinalText that leaves the heading out.
FinalTextNoPrefix(heading, body) == Strip(body)

FinalText(heading, body) ==
    IF heading # << >> THEN Strip(WithHeading(heading, body)) ELSE Strip(body)

\* test_text of the two greedy strategies: the headingless branch does not
\* strip.
TestText(heading, test_chunk) ==
    IF heading # << >> THEN Strip(WithHeading(heading, test_chunk)) ELSE test_chunk

\* The loop of _split_by_list_items from part number i (0-based) on.
RECURSIVE ListItemsLoop(_, _, _, _, _, _)
ListItemsLoop(parts, i, current_chunk, chunks, heading, max_tokens) ==
    IF i >= Len(parts) THEN [current_chunk |-> current_chunk, chunks |-> chunks]
    ELSE LET part == parts[i + 1]
             test_chunk == current_chunk \o part
         IN
         IF i = 0
         THEN ListItemsLoop(parts, 1, part, chunks, heading, max_tokens)
         ELSE IF /\ TokenCount(TestText(heading, test_chunk)) > max_tokens
                 /\ Strip(current_chunk) # << >>
              THEN ListItemsLoop(parts, i + 1,
                                 IF i + 1 < Len(parts) THEN part ELSE << >>,
                                 Append(chunks, FinalText(heading, current_chunk)),
                                 heading, max_tokens)
              ELSE ListItemsLoop(parts, i + 1, test_chunk, chunks,
                                 heading, max_tokens)

\* Flush of the remaining accumulator, shared by the greedy strategies.
AddRemaining(st, heading) ==
    IF Strip(st.current_chunk) # << >>
    THEN Append(st.chunks, FinalText(heading, st.current_chunk))
    ELSE st.chunks

_split_by_list_items(content, heading, max_tokens) ==
    AddRemaining(ListItemsLoop(BulletSplit(content), 0, << >>, << >>,
                               heading, max_tokens),
                 heading)

\* The loop of _split_by_sentences.
RECURSIVE SentencesLoop(_, _, _, _, _)
SentencesLoop(sentences, current_chunk, chunks, heading, max_tokens) ==
    IF sentences = << >> THEN [current_chunk |-> current_chunk, chunks |-> chunks]
    ELSE LET sentence == sentences[1]
             test_chunk == IF current_chunk # << >>
                           THEN Strip(current_chunk \o <<SP>> \o sentence)
                           ELSE sentence
         IN
         IF /\ TokenCount(TestText(heading, test_chunk)) > max_tokens
            /\ Strip(current_chunk) # << >>
         THEN SentencesLoop(Tail(sentences), sentence,
                            Append(chunks, FinalText(heading, current_chunk)),
                            heading, max_tokens)
         ELSE SentencesLoop(Tail(sentences), test_chunk, chunks,
                            heading, max_tokens)

_split_by_sentences(content, heading, max_tokens) ==
    AddRemaining(SentencesLoop(SentenceSplit(content), << >>, << >>,
                               heading, max_tokens),
                 heading)

\* int(max_tokens * 0.75)
WordsPerChunk(max_tokens) == (max_tokens * 3) \div 4

\* for i in range(0, len(words), words_per_chunk), from 0-based index i on
RECURSIVE WordsLoop(_, _, _, _)
WordsLoop(words, i, words_per_chunk, heading) ==
    IF i >= Len(words) THEN << >>
    ELSE LET last == IF i + words_per_chunk < Len(words)
                     THEN i + words_per_chunk ELSE Len(words)
             chunk_content == Join(SubSeq(words, i + 1, last), <<SP>>)
         IN <<FinalText(heading, chunk_content)>>
                \o WordsLoop(words, i + words_per_chunk, words_per_chunk, heading)

\* _split_by_words: range() raises ValueError for a step of 0.
_split_by_words(content, heading, max_tokens) ==
    IF WordsPerChunk(max_tokens) = 0
    THEN [status |-> "ValueError", chunks |-> << >>]
    ELSE [status |-> "ok",
          chunks |-> WordsLoop(Words(content), 0, WordsPerChunk(max_tokens), heading)]

\* The heading and content split_oversized_chunk extracts from chunk_text.
Heading(chunk_text) ==
    IF Contains(chunk_text, <<SEP>>)
    THEN Strip(StrSplit1(chunk_text, <<SEP>>)[1]) ELSE << >>

Content(chunk_text) ==
    IF Contains(chunk_text, <<SEP>>)
    THEN Strip(StrSplit1(chunk_text, <<SEP>>)[2]) ELSE Strip(chunk_text)

\* Variant of Strategy that looks for a "." before it looks for list markers.
StrategySentenceFirst(content) ==
    IF InList(content, DOT) THEN "sentence"
    ELSE IF BulletSearch(content) THEN "list"
    ELSE "words"

\* Which strategy split_oversized_chunk applies to a content.
Strategy(content) ==
    IF BulletSearch(content) THEN "list"
    ELSE IF InList(content, DOT) THEN "sentence"
    ELSE "words"

\* split_chunks of one call, as [status, chunks].
SplitChunks(chunk_text, max_tokens) ==
    LET heading == Heading(chunk_text)
        content == Content(chunk_text)
    IN  CASE Strategy(content) = "list" ->
               [status |-> "ok",
                chunks |-> _split_by_list_items(content, heading, max_tokens)]
          [] Strategy(content) = "sentence" ->
               [status |-> "ok",
                chunks |-> _split_by_sentences(content, heading, max_tokens)]
          [] OTHER -> _split_by_words(content, heading, max_tokens)

\* split_oversized_chunk.  A call returns [status |-> "ok", chunks] or
\* raises: status is then the exception's name.  The call chain is a
\* function of its argument, so it never ends exactly when a call receives
\* the argument of one of its callers (the set seen); the interpreter then
\* raises RecursionError.
RECURSIVE SplitOversized(_, _, _)
RECURSIVE ResplitAll(_, _, _, _)

\* Variant of ResplitAll that returns the pieces of the first pass without
\* checking them against the budget again.
ResplitAllNoRecheck(split_chunks, final_chunks, max_tokens, seen) ==
    [status |-> "ok", chunks |-> final_chunks \o split_chunks]

ResplitAll(split_chunks, final_chunks, max_tokens, seen) ==
    IF split_chunks = << >> THEN [status |-> "ok", chunks |-> final_chunks]
    ELSE LET chunk == split_chunks[1] IN
         IF TokenCount(chunk) > max_tokens
         THEN LET r == SplitOversized(chunk, max_tokens, seen) IN
              IF r.status # "ok" THEN r
              ELSE ResplitAll(Tail(split_chunks), final_chunks \o r.chunks,
                              max_tokens, seen)
         ELSE ResplitAll(Tail(split_chunks), Append(final_chunks, chunk),
                         max_tokens, seen)

SplitOversized(chunk_text, max_tokens, seen) ==
    IF TokenCount(chunk_text) <= max_tokens
    THEN [status |-> "ok", chunks |-> <<chunk_text>>]
    ELSE IF chunk_text \in seen
    THEN [status |-> "RecursionError", chunks |-> << >>]
    ELSE LET s == SplitChunks(chunk_text, max_tokens) IN
         IF s.status # "ok" THEN s
         ELSE LET r == ResplitAll(s.chunks, << >>, max_tokens,
                                  seen \cup {chunk_text})
              IN  IF r.status # "ok" THEN r
                  ELSE IF r.chunks # << >> THEN r
                  ELSE [status |-> "ok", chunks |-> <<chunk_text>>]

split_oversized_chunk(chunk_text, max_tokens) ==
    SplitOversized(chunk_text, max_tokens, {})

\* The calls of split_oversized_chunk that got past the budget test of
\* line 251, in call order: the recursion depth of the call, its argument
\* and the strategy it applied.  The list ends with the call that raised,
\* or with the first call that received the argument of one of its callers.
RECURSIVE SplitCalls(_, _, _, _)
RECURSIVE ResplitCalls(_, _, _, _)

ResplitCalls(split_chunks, max_tokens, seen, depth) ==
    IF split_chunks = << >> THEN << >>
    ELSE LET chunk == split_chunks[1] IN
         IF TokenCount(chunk) > max_tokens
         THEN IF SplitOversized(chunk, max_tokens, seen).status # "ok"
              THEN SplitCalls(chunk, max_tokens, seen, depth)
              ELSE SplitCalls(chunk, max_tokens, seen, depth)
                     \o ResplitCalls(Tail(split_chunks), max_tokens, seen, depth)
         ELSE ResplitCalls(Tail(split_chunks), max_tokens, seen, depth)

SplitCalls(chunk_text, max_tokens, seen, depth) ==
    IF TokenCount(chunk_text) <= max_tokens THEN << >>
    ELSE LET call == [depth      |-> depth,
                      chunk_text |-> chunk_text,
                      strategy   |-> Strategy(Content(chunk_text))]
         IN  IF chunk_text \in seen
                  \/ SplitChunks(chunk_text, max_tokens).status # "ok"
             THEN <<call>>
             ELSE <<call>>
                    \o ResplitCalls(SplitChunks(chunk_text, max_tokens).chunks,
                                    max_tokens, seen \cup {chunk_text}, depth + 1)

\* ---------------------------------------------------------------------------
\* Document Reader: read_doc
\* ---------------------------------------------------------------------------

\* Word symbols that begin with a capital letter ([A-Z] in TOC_PATTERN).
UpperWords == {"Intro", "Details", "Short", "More", "Even", "Plain", "Raw", "H"}

\* Length of the match of \r?\n\r?\n at s[j], 0 when it does not match.
BlankLineLen(s, j) ==
    LET a == IF StartsAt(s, j, <<CR>>) THEN 1 ELSE 0
        b == IF StartsAt(s, j + a + 1, <<CR>>) THEN 1 ELSE 0
    IN  IF StartsAt(s, j + a, <<NL>>) /\ StartsAt(s, j + a + 1 + b, <<NL>>)
        THEN a + b + 2 ELSE 0

\* No "\n" in s[from..to]: what .* can run over.
NoNewline(s, from, to) == \A m \in from..to : s[m] # NL

\* First alternative of TOC_PATTERN: - .*\r?\n\r?\n[A-Z]
DashTocSearch(doc) ==
    \E i \in 1..Len(doc) :
        /\ StartsAt(doc, i, <<DASH, SP>>)
        /\ \E j \in (i + 2)..Len(doc) :
              /\ BlankLineLen(doc, j) > 0
              /\ NoNewline(doc, i + 2, j - 1)
              /\ j + BlankLineLen(doc, j) <= Len(doc)
              /\ doc[j + BlankLineLen(doc, j)] \in UpperWords

\* \d+\s*\n matches at s[j]
DigitsThenNewline(s, j) ==
    LET d == RunLen(s, j, {DIGIT})
        w == RunLen(s, j + d, {SP, NL, CR})
    IN  d >= 1 /\ \E f \in (j + d)..(j + d + w - 1) : s[f] = NL

\* Second alternative of TOC_PATTERN: \.{3,}.*\d+\s*\n
DotTocSearch(doc) ==
    \E i \in 1..Len(doc) :
        /\ StartsAt(doc, i, <<DOT, DOT, DOT>>)
        /\ \E j \in (i + 3)..Len(doc) :
              /\ doc[j] = DIGIT
              /\ NoNewline(doc, i + 3, j - 1)
              /\ DigitsThenNewline(doc, j)

identify_doc_type(doc) ==
    IF DashTocSearch(doc) \/ DotTocSearch(doc)
    THEN "TOC_WITHOUT_TITLE" ELSE "NO_TOC_TITLE"

\* re.split(r'\r?\n\r?\n', doc, 1)
RECURSIVE SplitBlankLine1From(_, _)
SplitBlankLine1From(acc, s) ==
    IF s = << >> THEN <<acc>>
    ELSE IF BlankLineLen(s, 1) > 0 THEN <<acc, From(s, BlankLineLen(s, 1) + 1)>>
    ELSE SplitBlankLine1From(Append(acc, s[1]), Tail(s))

\* Variant of read_doc without its try/except: the converter's exception
\* reaches the caller.
ReadDocNoCatch(conv) ==
    IF conv.raises THEN [status |-> "ConversionError", toc |-> << >>, text |-> << >>]
    ELSE IF identify_doc_type(conv.doc) = "TOC_WITHOUT_TITLE"
    THEN LET parts == SplitBlankLine1From(<< >>, conv.doc) IN
         IF Len(parts) >= 2
         THEN [status |-> "ok", toc |-> parts[1], text |-> parts[2]]
         ELSE [status |-> "ok", toc |-> << >>, text |-> conv.doc]
    ELSE [status |-> "ok", toc |-> << >>, text |-> conv.doc]

\* read_doc on the outcome of pypandoc.convert_file for the file: conv.raises
\* when the converter throws, conv.doc the plain text it returns otherwise.
\* The whole body is inside try/except Exception.
read_doc(conv) ==
    IF conv.raises THEN [status |-> "ok", toc |-> << >>, text |-> << >>]
    ELSE IF identify_doc_type(conv.doc) = "TOC_WITHOUT_TITLE"
    THEN LET parts == SplitBlankLine1From(<< >>, conv.doc) IN
         IF Len(parts) >= 2
         THEN [status |-> "ok", toc |-> parts[1], text |-> parts[2]]
         ELSE [status |-> "ok", toc |-> << >>, text |-> conv.doc]
    ELSE [status |-> "ok", toc |-> << >>, text |-> conv.doc]

\* ---------------------------------------------------------------------------
\* Chunk Assembler: chunk_single_file
\* ---------------------------------------------------------------------------

\* for chunk in text_chunks: final_chunks.extend(split_oversized_chunk(...))
RECURSIVE SplitAllSegments(_, _, _)
SplitAllSegments(segments, final_chunks, max) ==
    IF segments = << >> THEN [status |-> "ok", chunks |-> final_chunks]
    ELSE LET r == split_oversized_chunk(segments[1], max) IN
         IF r.status # "ok" THEN r
         ELSE SplitAllSegments(Tail(segments), final_chunks \o r.chunks, max)

NoHeading == <<"No", SP, "Heading">>

\* chunk.split("[SEP]")[0].strip() if "[SEP]" in chunk else "No Heading"
SectionName(chunk) ==
    IF Contains(chunk, <<SEP>>) THEN Strip(StrSplit(chunk, <<SEP>>)[1]) ELSE NoHeading

\* Variant of DocumentChunks that numbers the chunks from 0.
DocumentChunksFromZero(filename, final_chunks) ==
    [k \in 1..Len(final_chunks) |->
        [metadata |-> [doc_id       |-> <<filename, "_", k - 1>>,
                       chunk_index  |-> k - 1,
                       chunk_length |-> TokenCount(final_chunks[k]),
                       section      |-> SectionName(final_chunks[k])],
         text |-> final_chunks[k]]]

\* The loop over enumerate(final_chunks, 1): doc_id "{filename}_{n}" is
\* written as the triple <<filename, "_", n>>.
DocumentChunks(filename, final_chunks) ==
    [k \in 1..Len(final_chunks) |->
        [metadata |-> [doc_id       |-> <<filename, "_", k>>,
                       chunk_index  |-> k,
                       chunk_length |-> TokenCount(final_chunks[k]),
                       section      |-> SectionName(final_chunks[k])],
         text |-> final_chunks[k]]]

\* The tail of chunk_single_file on f, the outcome of the splitting loop:
\* the DocumentChunk objects; DocumentChunk rejects an empty text
\* (min_length=1).
AssembleChunks(filename, f) ==
    IF f.status # "ok" THEN [status |-> f.status, chunks |-> << >>]
    ELSE IF \E k \in 1..Len(f.chunks) : f.chunks[k] = << >>
    THEN [status |-> "ValidationError", chunks |-> << >>]
    ELSE [status |-> "ok", chunks |-> DocumentChunks(filename, f.chunks)]

\* text_chunks of chunk_single_file from r, what read_doc returned.
SegmentsOf(r) == split_text(r.toc, cleanup_plaintext(r.text))

\* chunk_single_file from r, what read_doc returned.
ChunkDocument(filename, r, max) ==
    IF r.status # "ok" THEN [status |-> r.status, chunks |-> << >>]
    ELSE AssembleChunks(filename, SplitAllSegments(SegmentsOf(r), << >>, max))

\* chunk_single_file (DEBUG_MODE is False) as [status, chunks].
chunk_single_file(filename, conv, max) ==
    ChunkDocument(filename, read_doc(conv), max)

\* ---------------------------------------------------------------------------
\* document_service: process_document_content and its three chunking modes
\* ---------------------------------------------------------------------------

EmptyResult ==
    [status |-> "ok", chunk_all_texts |-> << >>, chunk_ids |-> << >>,
     doc_metadatas |-> << >>]

Raised(name) ==
    [status |-> name, chunk_all_texts |-> << >>, chunk_ids |-> << >>,
     doc_metadatas |-> << >>]

\* _process_with_advanced_chunking; create_file_metadata (os.path.getsize,
\* FileMetadata validation) raises when metadata_ok is false.
AdvancedResult(all_chunk_data, metadata_ok) ==
    IF all_chunk_data.status # "ok" THEN Raised(all_chunk_data.status)
    ELSE IF ~metadata_ok THEN Raised("MetadataError")
    ELSE [status |-> "ok",
          chunk_all_texts |-> [k \in 1..Len(all_chunk_data.chunks) |->
                                  all_chunk_data.chunks[k].text],
          chunk_ids       |-> [k \in 1..Len(all_chunk_data.chunks) |->
                                  all_chunk_data.chunks[k].metadata.doc_id],
          doc_metadatas   |-> [k \in 1..Len(all_chunk_data.chunks) |->
                                  all_chunk_data.chunks[k].metadata]]

ProcessWithAdvancedChunking(file, conv, metadata_ok, max) ==
    AdvancedResult(chunk_single_file(file.stem, conv, max), metadata_ok)

\* _process_with_simple_chunking: the whole content as one chunk under the
\* file name; chunk_length is len(content) in characters.
ProcessWithSimpleChunking(file, content, metadata_ok) ==
    IF ~metadata_ok THEN Raised("MetadataError")
    ELSE [status |-> "ok",
          chunk_all_texts |-> <<content>>,
          chunk_ids       |-> << <<file.stem, file.ext>> >>,
          doc_metadatas   |-> << [doc_id       |-> <<file.stem, "_", 1>>,
                                  chunk_index  |-> 1,
                                  chunk_length |-> Len(content),
                                  section      |-> <<"Full", SP, "Document">>] >>]

\* The while loop of _process_with_fixed_size_chunking from start_token on;
\* it is entered with overlap < max only (see BatchInit).
RECURSIVE FixedWindows(_, _, _, _, _)
FixedWindows(tokens, start_token, chunk_number, max, overlap) ==
    IF start_token >= Len(tokens) THEN << >>
    ELSE LET end_token == IF start_token + max < Len(tokens)
                          THEN start_token + max ELSE Len(tokens)
             chunk_tokens == SubSeq(tokens, start_token + 1, end_token)
             chunk == Decode(chunk_tokens)
         IN  IF Strip(chunk) = << >>
             THEN FixedWindows(tokens, start_token + max - overlap, chunk_number,
                               max, overlap)
             ELSE <<[text |-> chunk, chunk_number |-> chunk_number,
                     chunk_length |-> Len(chunk_tokens),
                     start_token |-> start_token, chunk_tokens |-> chunk_tokens]>>
                    \o FixedWindows(tokens, start_token + max - overlap,
                                    chunk_number + 1, max, overlap)

\* The lists _process_with_fixed_size_chunking builds from its windows w;
\* the average printed at the end divides by the number of chunks.
FixedSizeResult(file, w) ==
    IF w = << >> THEN Raised("ZeroDivisionError")
    ELSE [status |-> "ok",
          chunk_all_texts |-> [k \in 1..Len(w) |-> w[k].text],
          chunk_ids       |-> [k \in 1..Len(w) |->
                                  <<file.stem, "_chunk_", w[k].chunk_number>>],
          doc_metadatas   |-> [k \in 1..Len(w) |->
              [doc_id       |-> <<file.stem, "_chunk_", w[k].chunk_number>>,
               chunk_index  |-> w[k].chunk_number,
               chunk_length |-> w[k].chunk_length,
               section      |-> <<"Chunk", SP, w[k].chunk_number>>]]]

\* _process_with_fixed_size_chunking.
ProcessWithFixedSizeChunking(file, content, metadata_ok, max, overlap) ==
    IF ~metadata_ok THEN Raised("MetadataError")
    ELSE IF Len(Encode(content)) = 0 THEN EmptyResult
    ELSE FixedSizeResult(file, FixedWindows(Encode(content), 0, 1, max, overlap))

SUPPORTED_EXTENSIONS == {".md", ".docx", ".pdf", ".txt"}

ALLOWED_FILETYPES == {".md", ".docx", ".pdf", ".txt"}

\* The except branches of process_document_content: when the chunking mode
\* tried first raised, the simple mode is used instead.
WithSimpleFallback(primary, file, content, metadata_ok) ==
    IF primary.status = "ok" THEN primary
    ELSE ProcessWithSimpleChunking(file, content, metadata_ok)

\* Variant of process_document_content without the simple fallback: an
\* exception of the chosen chunking mode reaches the caller.
ProcessDocumentContentNoFallback(file, content, conv, metadata_ok, max, overlap) ==
    IF Strip(content) = << >> THEN EmptyResult
    ELSE IF file.ext = ".pdf"
    THEN ProcessWithFixedSizeChunking(file, content, metadata_ok, max, overlap)
    ELSE IF file.ext \in SUPPORTED_EXTENSIONS
    THEN ProcessWithAdvancedChunking(file, conv, metadata_ok, max)
    ELSE ProcessWithSimpleChunking(file, content, metadata_ok)

process_document_content(file, content, conv, metadata_ok, max, overlap) ==
    IF Strip(content) = << >> THEN EmptyResult
    ELSE IF file.ext = ".pdf"
    THEN WithSimpleFallback(
             ProcessWithFixedSizeChunking(file, content, metadata_ok, max, overlap),
             file, content, metadata_ok)
    ELSE IF file.ext \in SUPPORTED_EXTENSIONS
    THEN WithSimpleFallback(
             ProcessWithAdvancedChunking(file, conv, metadata_ok, max),
             file, content, metadata_ok)
    ELSE ProcessWithSimpleChunking(file, content, metadata_ok)

\* _get_supported_files on a directory: one glob per pattern, in the order
\* *.txt, *.pdf, *.md.
GetSupportedFiles(dir_files) ==
    SelectSeq(dir_files, LAMBDA f : f.ext = ".txt")
        \o SelectSeq(dir_files, LAMBDA f : f.ext = ".pdf")
        \o SelectSeq(dir_files, LAMBDA f : f.ext = ".md")

\* The for loops of process_documents and load_documents_from_directory:
\* the index of the file handled after file number idx of n, whatever the
\* status of the attempt (the except branch ends the iteration only).
NextFileAbortOnError(idx, status, n) == IF status = "ok" THEN idx + 1 ELSE n

NextFile(idx, status, n) == idx + 1

\* ---------------------------------------------------------------------------
\* Bounded input sets
\* ---------------------------------------------------------------------------

\* All sequences over alphabet a of length 0..n.
SeqsUpTo(a, n) == UNION {[1..k -> a] : k \in 0..n}

\* Normalizer inputs: every text of at most MaxRawLen symbols of brackets
\* and whitespace, and every text of at most MaxArtifactLen symbols of
\* brackets and the words of the artifact tokens.
MaxRawLen == 5
MaxArtifactLen == 4

NormAlphabet == {LBR, RBR, IMAGE, CR, NL, SP, DASH}

ArtifactAlphabet == {LBR, RBR, IMAGE, FIGURE, TABLE, NL}

RawTexts ==
    SeqsUpTo(NormAlphabet, MaxRawLen) \cup SeqsUpTo(ArtifactAlphabet, MaxArtifactLen)

\* Segmenter inputs: a TOC of at most MaxTocLines "- heading" lines and a
\* text of at most MaxParas paragraphs separated by blank lines.
MaxTocLines == 2
MaxParas == 4

HeadingPalette == {<<"Intro">>, <<"Details">>}

ParaPalette ==
    HeadingPalette \cup {<<"Short", SP, "para", DOT>>, <<"More", SP, "text", DOT>>, <<SP>>}

TocOf(hs) == Join([i \in 1..Len(hs) |-> <<DASH, SP>> \o hs[i]], <<NL>>)

TextOf(paras) == Join(paras, <<NL, NL>>)

Tocs == {TocOf(hs) : hs \in SeqsUpTo(HeadingPalette, MaxTocLines)}

Texts == {TextOf(paras) : paras \in SeqsUpTo(ParaPalette, MaxParas)}

\* Splitter inputs: a heading (or none) in front of a body that is either
\* any text of at most MaxBodyLen symbols or MaxUnits distinct words with a
\* separator between neighbours and an optional final "."; a budget of
\* 1..MaxBudget tokens.
MaxBodyLen == 3
MaxUnits == 4
MaxBudget == 4

BodyAlphabet == {"a", SP, DOT, NL, DASH}

WordSyms == <<"w1", "w2", "w3", "w4", "w5", "w6", "w7">>

UnitSeps == {<<SP>>, <<DOT, SP>>, <<BANG, SP>>, <<NL, DASH, SP>>, <<NL, DIGIT, DOT>>}

RECURSIVE UnitsBody(_, _)
UnitsBody(seps, i) ==
    IF i > Len(seps) THEN <<WordSyms[i]>>
    ELSE <<WordSyms[i]>> \o seps[i] \o UnitsBody(seps, i + 1)

Bodies ==
    SeqsUpTo(BodyAlphabet, MaxBodyLen)
      \cup UNION {{UnitsBody(seps, 1) \o last :
                      seps \in [1..(n - 1) -> UnitSeps], last \in {<< >>, <<DOT>>}} :
                  n \in 1..MaxUnits}

SegmentHeadings == {<< >>, <<"h">>, <<"H", SP, "h">>}

\* A segment as split_text formats it.
SegmentText(heading, body) ==
    IF heading # << >> THEN WithHeading(heading, body) ELSE body

SegmentTexts == {SegmentText(h, b) : h \in SegmentHeadings, b \in Bodies}

\* Batch inputs: a directory of at most MaxFiles files, a token budget of at
\* most MaxFileBudget and an overlap of at most MaxOverlap tokens; what the
\* collaborators give for a file is drawn when the file is handled.
MaxFiles == 3
MaxFileBudget == 5
MaxOverlap == 1

Stems == <<"f1", "f2", "f3", "f4", "f5">>

Extensions == {".md", ".pdf", ".csv"}

\* Directory trees whose files all lie in the root, with stems of their own.
FlatDirectories ==
    UNION {{[i \in 1..n |-> [dir |-> ".", stem |-> Stems[i], ext |-> e[i]]] :
               e \in [1..n -> Extensions]} : n \in 0..MaxFiles}

\* The trees os.walk goes over: the flat ones, and those whose last file is
\* a Markdown file in a subdirectory that has the stem of the first file.
Directories ==
    FlatDirectories \cup
    {[d EXCEPT ![Len(d)] = [dir |-> "sub", stem |-> d[1].stem, ext |-> ".md"]] :
        d \in {x \in FlatDirectories : Len(x) >= 2 /\ x[Len(x)].ext = ".md"}}

\* Plain text the converter returns: a TOC of two headings with a two
\* sentence section wrapped over two lines, or a text without TOC.
DocTwoSections ==
    <<DASH, SP, "Intro", NL, DASH, SP, "Details", NL, NL,
      "Intro", NL, NL, "Short", SP, "para", DOT, NL, NL,
      "Details", NL, NL, "More", SP, "text", DOT, NL, "Even", SP, "more", DOT>>

DocPlain == <<"Plain", SP, "text", DOT>>

ConverterRaises == [raises |-> TRUE, doc |-> << >>]

Conversions ==
    {ConverterRaises} \cup
    {[raises |-> FALSE, doc |-> d] : d \in {DocTwoSections, DocPlain}}

\* Fixed-window inputs: what the tokenizer gives for a content, at most
\* MaxTokens tokens, each a word of its own or a token of whitespace only,
\* with a budget of at most MaxWindow tokens and an overlap below it.
MaxTokens == 6
MaxWindow == 4

WhitespaceToken == <<NL, NL>>

TokenLists ==
    UNION {{[i \in 1..n |-> IF i \in ws THEN WhitespaceToken ELSE <<WordSyms[i]>>] :
               ws \in SUBSET (1..n)} : n \in 0..MaxTokens}

\* What open().read() gives for a file ("" when it cannot be read).
Contents == {<< >>, <<"Raw", SP, "text", SP, "more", SP, "and", SP, "more", DOT>>}

\* ---------------------------------------------------------------------------
\* SessionStorageService: the chat_sessions table and history serialization
\* ---------------------------------------------------------------------------

\* A message is [kind, content]: kind "human", "ai" or "system" for
\* HumanMessage, AIMessage and SystemMessage, "tool" for any other
\* BaseMessage.  A serialized message is [role, content].

\* Variant of _serialize_history without its branch for SystemMessage.
RECURSIVE SerializeWithoutSystem(_)
SerializeWithoutSystem(history) ==
    IF history = << >> THEN << >>
    ELSE LET msg == history[1] IN
         (IF msg.kind = "human"
          THEN << [role |-> "user", content |-> msg.content] >>
          ELSE IF msg.kind = "ai"
          THEN << [role |-> "assistant", content |-> msg.content] >>
          ELSE << >>) \o SerializeWithoutSystem(Tail(history))

RECURSIVE _serialize_history(_)
_serialize_history(history) ==
    IF history = << >> THEN << >>
    ELSE LET msg == history[1] IN
         (IF msg.kind = "human"
          THEN << [role |-> "user", content |-> msg.content] >>
          ELSE IF msg.kind = "ai"
          THEN << [role |-> "assistant", content |-> msg.content] >>
          ELSE IF msg.kind = "system"
          THEN << [role |-> "system", content |-> msg.content] >>
          ELSE << >>) \o _serialize_history(Tail(history))

RECURSIVE _deserialize_history(_)
_deserialize_history(serialized_history) ==
    IF serialized_history = << >> THEN << >>
    ELSE LET item == serialized_history[1] IN
         (IF item.role = "user"
          THEN << [kind |-> "human", content |-> item.content] >>
          ELSE IF item.role = "assistant"
          THEN << [kind |-> "ai", content |-> item.content] >>
          ELSE IF item.role = "system"
          THEN << [kind |-> "system", content |-> item.content] >>
          ELSE << >>) \o _deserialize_history(Tail(serialized_history))

\* A dict: a function on the set of its keys.
DictSet(d, key, value) ==
    [k \in DOMAIN d \cup {key} |-> IF k = key THEN value ELSE d[k]]

DictDel(d, key) == [k \in DOMAIN d \ {key} |-> d[k]]

EmptyDict == [k \in {} |-> 0]

None == "None"

\* What get_session_data returns for a session without data: [], 1, None
DefaultSessionData ==
    [history |-> << >>, step |-> 1, planner |-> None]

\* SessionStorageService.get_session_data on the table.  outcome "ok": the
\* select works, the row is returned, a missing row is inserted with the
\* defaults; "error": no client, or the query raises inside the method,
\* which returns the defaults; "raises": the storage object raises to its
\* caller, as the mocks of the tests do.
storage_get_session_data(table, session_id, outcome) ==
    IF outcome = "raises"
    THEN [raised |-> TRUE, data |-> DefaultSessionData, table |-> table]
    ELSE IF outcome = "error"
    THEN [raised |-> FALSE, data |-> DefaultSessionData, table |-> table]
    ELSE IF session_id \in DOMAIN table
    THEN [raised |-> FALSE,
          data |-> [history |-> _deserialize_history(
                                   table[session_id].conversation_history),
                    step    |-> table[session_id].current_step,
                    planner |-> table[session_id].planner_details],
          table |-> table]
    ELSE [raised |-> FALSE, data |-> DefaultSessionData,
          table |-> DictSet(table, session_id,
                            [conversation_history |-> << >>,
                             current_step |-> 1,
                             planner_details |-> None])]

\* SessionStorageService.update_session_data.  outcome "true": the upsert
\* works; "false": no client, no data in the result, or an exception
\* inside the method; "raises": the storage object raises to its caller.
storage_update_session_data(table, session_id, history, step, planner, outcome) ==
    IF outcome = "true"
    THEN [raised |-> FALSE, success |-> TRUE,
          table |-> DictSet(table, session_id,
                            [conversation_history |-> _serialize_history(history),
                             current_step |-> step,
                             planner_details |-> planner])]
    ELSE [raised |-> outcome = "raises", success |-> FALSE, table |-> table]

\* SessionStorageService.delete_session.  outcome "true": rows were
\* deleted; "false": none, no client, or an exception inside the method;
\* "raises": the storage object raises to its caller.
storage_delete_session(table, session_id, outcome) ==
    IF outcome = "true"
    THEN [raised |-> FALSE, success |-> TRUE, table |-> DictDel(table, session_id)]
    ELSE [raised |-> outcome = "raises", success |-> FALSE, table |-> table]

\* ---------------------------------------------------------------------------
\* ChatService: session state with an in-memory fallback, process_query
\* ---------------------------------------------------------------------------

\* The service is a record svc: session_storage_service (is one
\* configured), the three in-memory dicts, the table behind the storage
\* service, and storage_last, per session the outcome of the latest call
\* the service made to its storage service ("none", "ok" or "failed").

MemoryData(svc, session_id) ==
    [history |-> svc.conversation_history[session_id],
     step    |-> svc.current_process_step[session_id],
     planner |-> svc.planner_details[session_id]]

MemorySet(svc, session_id, history, step, planner) ==
    [svc EXCEPT
        !.conversation_history = DictSet(@, session_id, history),
        !.current_process_step = DictSet(@, session_id, step),
        !.planner_details = DictSet(@, session_id, planner)]

MemoryDel(svc, session_id) ==
    [svc EXCEPT
        !.conversation_history = DictDel(@, session_id),
        !.current_process_step = DictDel(@, session_id),
        !.planner_details = DictDel(@, session_id)]

Attempted(svc, session_id, failed) ==
    [svc EXCEPT !.storage_last =
        [@ EXCEPT ![session_id] = IF failed THEN "failed" ELSE "ok"]]

\* _get_session_data: [svc, data]
_get_session_data(svc, session_id, outcome) ==
    IF session_id \in DOMAIN svc.conversation_history
    THEN [svc |-> svc, data |-> MemoryData(svc, session_id)]
    ELSE LET r == storage_get_session_data(svc.table, session_id, outcome) IN
         IF svc.session_storage_service /\ ~r.raised
         THEN [svc |-> [Attempted(svc, session_id, FALSE) EXCEPT !.table = r.table],
               data |-> r.data]
         ELSE [svc |-> MemorySet(IF svc.session_storage_service
                                 THEN Attempted(svc, session_id, TRUE) ELSE svc,
                                 session_id, << >>, 1, None),
               data |-> DefaultSessionData]

\* Variant of _update_session_data that keeps the in-memory copy after a
\* successful save.
UpdateSessionDataKeepMemory(svc, session_id, history, step, planner, outcome) ==
    LET r == storage_update_session_data(svc.table, session_id, history, step,
                                         planner, outcome) IN
    IF svc.session_storage_service /\ r.success
    THEN [Attempted(svc, session_id, FALSE) EXCEPT !.table = r.table]
    ELSE MemorySet(IF svc.session_storage_service
                   THEN Attempted(svc, session_id, TRUE) ELSE svc,
                   session_id, history, step, planner)

\* _update_session_data: the service afterwards
_update_session_data(svc, session_id, history, step, planner, outcome) ==
    LET r == storage_update_session_data(svc.table, session_id, history, step,
                                         planner, outcome) IN
    IF svc.session_storage_service /\ r.success
    THEN MemoryDel([Attempted(svc, session_id, FALSE) EXCEPT !.table = r.table],
                   session_id)
    ELSE MemorySet(IF svc.session_storage_service
                   THEN Attempted(svc, session_id, TRUE) ELSE svc,
                   session_id, history, step, planner)

\* Variant of delete_session that reports the persistent delete only.
DeleteSessionPersistentOnly(svc, session_id, outcome) ==
    LET r == storage_delete_session(svc.table, session_id, outcome)
        persistent_success == svc.session_storage_service /\ r.success
    IN  [svc |-> MemoryDel(IF svc.session_storage_service
                           THEN [Attempted(svc, session_id, ~r.success)
                                    EXCEPT !.table = r.table]
                           ELSE svc,
                           session_id),
         result |-> persistent_success]

\* delete_session: [svc, result]
delete_session(svc, session_id, outcome) ==
    LET r == storage_delete_session(svc.table, session_id, outcome)
        persistent_success == svc.session_storage_service /\ r.success
        memory_cleaned == session_id \in DOMAIN svc.conversation_history
    IN  [svc |-> MemoryDel(IF svc.session_storage_service
                           THEN [Attempted(svc, session_id, ~r.success)
                                    EXCEPT !.table = r.table]
                           ELSE svc,
                           session_id),
         result |-> persistent_success \/ memory_cleaned]

HumanMessage(content) == [kind |-> "human", content |-> content]

AIMessage(content) == [kind |-> "ai", content |-> content]

\* The caller confirms a move to another step (lines 192-193);
\* confirmed_next_step 0 stands for None.
Confirmed(confirmed_next_step, current_step) ==
    /\ confirmed_next_step \in 1..6
    /\ confirmed_next_step # current_step

\* Lines 300-311: what the LLM gives as propose_next_step becomes the
\* proposed_next_step of the reply when it is a step of 1..6 other than
\* the current one (0 stands for None).
Proposed(next_step_from_llm, current_step) ==
    IF next_step_from_llm \in 1..6 /\ next_step_from_llm # current_step
    THEN next_step_from_llm ELSE 0

\* process_query from the point where the session data is loaded (got, the
\* outcome of _get_session_data): the step confirmation, the vector store
\* queries, the prompt and the chain.  io gives what the collaborators do:
\* io.save1 and io.save2 the outcomes of the two saves, io.failure what
\* goes wrong ("none", "vector": query_collection raises at lines 245-252,
\* "prompt": no prompt template, "llm": the chain raises), io.reply the
\* response_text, io.propose the propose_next_step of the LLM's reply.  history.append adds to the list the session data
\* holds; nothing can raise between the appends and the save, so the
\* lists are values here.
ProcessLoaded(got, session_id, query_text, confirmed_next_step, io) ==
    LET current_step == IF Confirmed(confirmed_next_step, got.data.step)
                        THEN confirmed_next_step ELSE got.data.step
        svc1 == IF Confirmed(confirmed_next_step, got.data.step)
                THEN _update_session_data(got.svc, session_id, got.data.history,
                                          current_step, got.data.planner, io.save1)
                ELSE got.svc
        history == got.data.history
                     \o <<HumanMessage(query_text), AIMessage(io.reply)>>
    IN  IF io.failure = "vector"
        THEN [svc |-> svc1, status |-> "Exception", proposed_next_step |-> 0]
        ELSE IF io.failure = "prompt"
        THEN [svc |-> svc1, status |-> "PromptGenerationError",
              proposed_next_step |-> 0]
        ELSE IF io.failure = "llm"
        THEN [svc |-> svc1, status |-> "LLMInvocationError",
              proposed_next_step |-> 0]
        ELSE [svc |-> _update_session_data(svc1, session_id, history, current_step,
                                           got.data.planner, io.save2),
              status |-> "ok",
              proposed_next_step |-> Proposed(io.propose, current_step)]

\* process_query: [svc, status, proposed_next_step]; the proposal is part
\* of the tuple a call that ends well returns (0 stands for None).
process_query(svc, session_id, query_text, confirmed_next_step, io) ==
    ProcessLoaded(_get_session_data(svc, session_id, io.load),
                  session_id, query_text, confirmed_next_step, io)

\* ---------------------------------------------------------------------------
\* State
\* ---------------------------------------------------------------------------

VARIABLES
    raw_text,       \* normalizer: the text handed to the first cleanup_plaintext
    text_cleaned,   \* normalizer: the result of the latest cleanup_plaintext
    prev_cleaned,   \* normalizer: the result of the call before the latest
    cleanups,       \* normalizer: number of cleanup_plaintext calls made
    toc,            \* segmenter: split_text's toc argument
    text,           \* segmenter: split_text's text argument
    text_chunks,    \* segmenter: the list split_text returned
    seg_done,       \* segmenter: split_text has returned
    chunk_text,     \* splitter: split_oversized_chunk's chunk_text argument
    max_tokens,     \* splitter: split_oversized_chunk's max_tokens argument
    split_result,   \* splitter: [status, chunks] of the call ("pending" before)
    split_calls,    \* splitter: the calls that applied a strategy, in call order
    batch_mode,     \* batch: the entry point that runs
    MAX_CHUNK_TOKENS,   \* batch: settings.MAX_CHUNK_TOKENS
    OVERLAP_TOKENS,     \* batch: settings.OVERLAP_TOKENS
    file_paths,     \* batch: the files the loop goes over, in loop order
    file_idx,       \* batch: number of files the loop has handled
    all_chunk_data, \* process_documents: the chunks collected so far
    processed_files,    \* process_documents: its counter
    all_documents,  \* load_documents_from_directory: chunk texts so far
    all_metadatas,  \* load_documents_from_directory: chunk metadata so far
    all_ids,        \* load_documents_from_directory: chunk ids so far
    file_log,       \* batch: per handled file, what the collaborators gave,
                    \* how chunk_single_file ended on it ("none": not called)
                    \* and what the per-file call did and returned
    batch_pc,       \* batch: "idle", "loop" or "returned"
    file_conv,      \* chunk_single_file: what the converter does on the file
    file_max,       \* chunk_single_file: settings.MAX_CHUNK_TOKENS
    file_pieces,    \* chunk_single_file: per segment of text_chunks, what
                    \* split_oversized_chunk returned for it
    document_chunks,    \* chunk_single_file: [status, chunks] ("pending" before)
    session_storage_service,    \* chat: the ChatService has a storage service
    conversation_history,   \* chat: in-memory dict session -> messages
    current_process_step,   \* chat: in-memory dict session -> step
    planner_details,    \* chat: in-memory dict session -> planner state
    table,          \* chat: the rows of chat_sessions, by session id
    storage_last,   \* chat: per session, how the service's latest call to
                    \* its storage service ended ("none" before any)
    chat_call,      \* chat: the latest call: what was called, on which
                    \* session, what it met and how it ended
    chat_calls,     \* chat: number of calls made
    history_in,     \* serialization: the history handed to _serialize_history
    serialized_history, \* serialization: what _serialize_history returned
    restored_history,   \* serialization: what _deserialize_history returned
    serial_pc,      \* serialization: "start", "serialized" or "restored"
    window_tokens,  \* fixed windows: what encoding.encode gave for the content
    window_max,     \* fixed windows: the max_tokens argument
    window_overlap, \* fixed windows: the overlap_tokens argument
    windows,        \* fixed windows: the chunks the while loop emitted
    window_pc,      \* fixed windows: "start" or "done"
    messages,       \* ChatState.messages; a message also says for which
                    \* request it was appended as AI placeholder (0: none)
                    \* and which request wrote its text (0: none)
    processing,     \* ChatState.processing
    proposed_next_step,     \* ChatState.proposed_next_step (0: None)
    confirmation_in_progress,   \* ChatState.confirmation_in_progress
    current_vino_step,  \* ChatState.current_vino_step
    ui_tasks,       \* ChatState: the background tasks started so far, each
                    \* with its kind, its position and its confirmed_step
    ui_fault        \* ChatState: what the latest step of a task raised

normVars == <<raw_text, text_cleaned, prev_cleaned, cleanups>>
segVars == <<toc, text, text_chunks, seg_done>>
splitVars == <<chunk_text, max_tokens, split_result, split_calls>>

batchVars ==
    <<batch_mode, MAX_CHUNK_TOKENS, OVERLAP_TOKENS, file_paths, file_idx,
      all_chunk_data, processed_files, all_documents, all_metadatas, all_ids,
      file_log, batch_pc>>

fileVars == <<file_conv, file_max, file_pieces, document_chunks>>

chatVars ==
    <<session_storage_service, conversation_history, current_process_step,
      planner_details, table, storage_last, chat_call, chat_calls>>

serialVars == <<history_in, serialized_history, restored_history, serial_pc>>

windowVars == <<window_tokens, window_max, window_overlap, windows, window_pc>>

\* The components that came last.
uiVars ==
    <<messages, processing, proposed_next_step, confirmation_in_progress,
      current_vino_step, ui_tasks, ui_fault>>

restVars == <<windowVars, uiVars>>

vars == <<normVars, segVars, splitVars, batchVars, fileVars, chatVars, serialVars, restVars>>

\* A component that a specification does not exercise stays idle.
NormIdle ==
    /\ raw_text = << >>
    /\ text_cleaned = << >>
    /\ prev_cleaned = << >>
    /\ cleanups = 0

SegIdle ==
    /\ toc = << >>
    /\ text = << >>
    /\ text_chunks = << >>
    /\ seg_done = FALSE

SplitIdle ==
    /\ chunk_text = << >>
    /\ max_tokens = 0
    /\ split_result = [status |-> "idle", chunks |-> << >>]
    /\ split_calls = << >>

Sessions == {"s1", "s2"}

NoCall ==
    [op |-> "none", session_id |-> "none", status |-> "none", result |-> FALSE,
     storage |-> "none", in_memory |-> FALSE, before |-> << >>,
     query_text |-> "none", reply |-> "none", step_before |-> 1,
     confirmed_next_step |-> 0, proposed_next_step |-> 0]

ChatIdle ==
    /\ session_storage_service = FALSE
    /\ conversation_history = EmptyDict
    /\ current_process_step = EmptyDict
    /\ planner_details = EmptyDict
    /\ table = EmptyDict
    /\ storage_last = [s \in Sessions |-> "none"]
    /\ chat_call = NoCall
    /\ chat_calls = 0

SerialIdle ==
    /\ history_in = << >>
    /\ serialized_history = << >>
    /\ restored_history = << >>
    /\ serial_pc = "idle"

WindowIdle ==
    /\ window_tokens = << >>
    /\ window_max = 1
    /\ window_overlap = 0
    /\ windows = << >>
    /\ window_pc = "idle"

UiIdle ==
    /\ messages = << >>
    /\ processing = FALSE
    /\ proposed_next_step = 0
    /\ confirmation_in_progress = FALSE
    /\ current_vino_step = 1
    /\ ui_tasks = << >>
    /\ ui_fault = "idle"

RestIdle == WindowIdle /\ UiIdle

OthersIdle == ChatIdle /\ SerialIdle /\ RestIdle

FileIdle ==
    /\ file_conv = [raises |-> FALSE, doc |-> << >>]
    /\ file_max = 0
    /\ file_pieces = << >>
    /\ document_chunks = [status |-> "idle", chunks |-> << >>]

BatchIdle ==
    /\ batch_mode = "idle"
    /\ MAX_CHUNK_TOKENS = 0
    /\ OVERLAP_TOKENS = 0
    /\ file_paths = << >>
    /\ file_idx = 0
    /\ all_chunk_data = << >>
    /\ processed_files = 0
    /\ all_documents = << >>
    /\ all_metadatas = << >>
    /\ all_ids = << >>
    /\ file_log = << >>
    /\ batch_pc = "idle"

\* ---------------------------------------------------------------------------
\* Normalizer as a state machine: cleanup_plaintext applied to its own output
\* ---------------------------------------------------------------------------

NormInit ==
    /\ raw_text \in RawTexts
    /\ text_cleaned = raw_text
    /\ prev_cleaned = raw_text
    /\ cleanups = 0
    /\ SegIdle /\ SplitIdle /\ BatchIdle /\ FileIdle /\ OthersIdle

CleanupPlaintext ==
    /\ cleanups < 2
    /\ prev_cleaned' = text_cleaned
    /\ text_cleaned' = cleanup_plaintext(text_cleaned)
    /\ cleanups' = cleanups + 1
    /\ UNCHANGED <<raw_text, segVars, splitVars, batchVars, fileVars, chatVars, serialVars, restVars>>

NormNext == CleanupPlaintext

SpecNorm == NormInit /\ [][NormNext]_vars

\* ---------------------------------------------------------------------------
\* Segmenter as a state machine: one call of split_text
\* ---------------------------------------------------------------------------

SegInit ==
    /\ toc \in Tocs
    /\ text \in Texts
    /\ text_chunks = << >>
    /\ seg_done = FALSE
    /\ NormIdle /\ SplitIdle /\ BatchIdle /\ FileIdle /\ OthersIdle

SplitText ==
    /\ ~seg_done
    /\ text_chunks' = split_text(toc, text)
    /\ seg_done' = TRUE
    /\ UNCHANGED <<toc, text, normVars, splitVars, batchVars, fileVars, chatVars, serialVars, restVars>>

SegNext == SplitText

SpecSeg == SegInit /\ [][SegNext]_vars

\* ---------------------------------------------------------------------------
\* Splitter as a state machine: one call of split_oversized_chunk
\* ---------------------------------------------------------------------------

SplitInit ==
    /\ chunk_text \in SegmentTexts
    /\ max_tokens \in 1..MaxBudget
    /\ split_result = [status |-> "pending", chunks |-> << >>]
    /\ split_calls = << >>
    /\ NormIdle /\ SegIdle /\ BatchIdle /\ FileIdle /\ OthersIdle

SplitOversizedChunk ==
    /\ split_result.status = "pending"
    /\ split_result' = split_oversized_chunk(chunk_text, max_tokens)
    /\ split_calls' = SplitCalls(chunk_text, max_tokens, {}, 0)
    /\ UNCHANGED <<chunk_text, max_tokens, normVars, segVars, batchVars, fileVars, chatVars, serialVars, restVars>>

SplitNext == SplitOversizedChunk

SpecSplit == SplitInit /\ [][SplitNext]_vars

\* ---------------------------------------------------------------------------
\* Batch ingestion as a state machine: process_documents over a directory
\* tree, or load_documents_from_directory over a directory
\* ---------------------------------------------------------------------------

\* The shipped settings keep OVERLAP_TOKENS below MAX_CHUNK_TOKENS (80 and
\* 300).  The budget is either 4 tokens, which a single sentence under a
\* heading exceeds, or MaxFileBudget tokens, which it fits.  A directory is walked in listing order by process_documents and
\* pattern by pattern by load_documents_from_directory.
BatchInit ==
    /\ batch_mode \in {"process_documents", "load_documents_from_directory"}
    /\ MAX_CHUNK_TOKENS \in {4, MaxFileBudget}
    /\ OVERLAP_TOKENS \in {0, MaxOverlap}
    /\ OVERLAP_TOKENS < MAX_CHUNK_TOKENS
    /\ \E dir \in Directories :
          file_paths = IF batch_mode = "process_documents"
                       THEN dir ELSE GetSupportedFiles(dir)
    /\ file_idx = 0
    /\ all_chunk_data = << >>
    /\ processed_files = 0
    /\ all_documents = << >>
    /\ all_metadatas = << >>
    /\ all_ids = << >>
    /\ file_log = << >>
    /\ batch_pc = "loop"
    /\ NormIdle /\ SegIdle /\ SplitIdle /\ FileIdle /\ OthersIdle

NotConverted == [raises |-> FALSE, doc |-> << >>]

\* One iteration of the inner loop of process_documents on a file of an
\* allowed type: chunk_single_file inside try/except Exception.
ProcessDocumentsFile ==
    /\ batch_mode = "process_documents"
    /\ batch_pc = "loop"
    /\ file_idx < Len(file_paths)
    /\ file_paths[file_idx + 1].ext \in ALLOWED_FILETYPES
    /\ \E conv \in Conversions :
         \E chunk_data \in {chunk_single_file(file_paths[file_idx + 1].stem, conv,
                                              MAX_CHUNK_TOKENS)} :
             /\ IF chunk_data.status = "ok"
                THEN /\ all_chunk_data' = all_chunk_data \o chunk_data.chunks
                     /\ processed_files' = processed_files + 1
                ELSE UNCHANGED <<all_chunk_data, processed_files>>
             /\ file_idx' = NextFile(file_idx, chunk_data.status, Len(file_paths))
             /\ file_log' = Append(file_log,
                    [file |-> file_paths[file_idx + 1], content |-> << >>,
                     conv |-> conv, metadata_ok |-> TRUE,
                     status |-> chunk_data.status,
                     added |-> IF chunk_data.status = "ok"
                               THEN Len(chunk_data.chunks) ELSE 0,
                     chunking |-> chunk_data.status,
                     returned |-> [k \in 1..Len(chunk_data.chunks) |->
                                      chunk_data.chunks[k].text]])
    /\ UNCHANGED <<batch_mode, MAX_CHUNK_TOKENS, OVERLAP_TOKENS, file_paths,
                   all_documents, all_metadatas, all_ids, batch_pc>>
    /\ UNCHANGED <<normVars, segVars, splitVars, fileVars, chatVars, serialVars, restVars>>

\* One iteration of the same loop on a file of another type: skipped.
ProcessDocumentsSkip ==
    /\ batch_mode = "process_documents"
    /\ batch_pc = "loop"
    /\ file_idx < Len(file_paths)
    /\ file_paths[file_idx + 1].ext \notin ALLOWED_FILETYPES
    /\ file_idx' = file_idx + 1
    /\ file_log' = Append(file_log,
           [file |-> file_paths[file_idx + 1], content |-> << >>,
            conv |-> NotConverted, metadata_ok |-> TRUE, status |-> "skipped",
            added |-> 0, chunking |-> "none", returned |-> << >>])
    /\ UNCHANGED <<batch_mode, MAX_CHUNK_TOKENS, OVERLAP_TOKENS, file_paths,
                   all_chunk_data, processed_files, all_documents,
                   all_metadatas, all_ids, batch_pc>>
    /\ UNCHANGED <<normVars, segVars, splitVars, fileVars, chatVars, serialVars, restVars>>

\* One iteration of the loop of load_documents_from_directory:
\* extract_text_from_file (which catches its own errors and then returns
\* ""), process_document_content and the aggregation, inside try/except
\* Exception.  The converter and create_file_metadata are reached only for
\* a file with content; the converter only for a file that is not a PDF.
LoadDocumentsFile ==
    /\ batch_mode = "load_documents_from_directory"
    /\ batch_pc = "loop"
    /\ file_idx < Len(file_paths)
    /\ \E content \in Contents, conv \in Conversions \cup {NotConverted},
          metadata_ok \in BOOLEAN :
         \E result \in {process_document_content(
                             file_paths[file_idx + 1], content, conv, metadata_ok,
                             MAX_CHUNK_TOKENS, OVERLAP_TOKENS)} :
             /\ Strip(content) # << >> \/ metadata_ok
             /\ IF Strip(content) # << >> /\ file_paths[file_idx + 1].ext # ".pdf"
                THEN conv \in Conversions ELSE conv = NotConverted
             /\ IF result.status = "ok"
                THEN /\ all_documents' = all_documents \o result.chunk_all_texts
                     /\ all_ids' = all_ids \o result.chunk_ids
                     /\ all_metadatas' = all_metadatas \o result.doc_metadatas
                ELSE UNCHANGED <<all_documents, all_ids, all_metadatas>>
             /\ file_idx' = NextFile(file_idx, result.status, Len(file_paths))
             /\ file_log' = Append(file_log,
                    [file |-> file_paths[file_idx + 1], content |-> content,
                     conv |-> conv, metadata_ok |-> metadata_ok,
                     status |-> result.status,
                     added |-> IF result.status = "ok"
                               THEN Len(result.chunk_all_texts) ELSE 0,
                     chunking |->
                         IF /\ Strip(content) # << >>
                            /\ file_paths[file_idx + 1].ext # ".pdf"
                            /\ file_paths[file_idx + 1].ext \in SUPPORTED_EXTENSIONS
                         THEN chunk_single_file(file_paths[file_idx + 1].stem, conv,
                                                MAX_CHUNK_TOKENS).status
                         ELSE "none",
                     returned |-> result.chunk_all_texts])
    /\ UNCHANGED <<batch_mode, MAX_CHUNK_TOKENS, OVERLAP_TOKENS, file_paths,
                   all_chunk_data, processed_files, batch_pc>>
    /\ UNCHANGED <<normVars, segVars, splitVars, fileVars, chatVars, serialVars, restVars>>

\* The return statement of either function, after the last file.
BatchReturn ==
    /\ batch_pc = "loop"
    /\ file_idx >= Len(file_paths)
    /\ batch_pc' = "returned"
    /\ UNCHANGED <<batch_mode, MAX_CHUNK_TOKENS, OVERLAP_TOKENS, file_paths,
                   file_idx, all_chunk_data, processed_files, all_documents,
                   all_metadatas, all_ids, file_log>>
    /\ UNCHANGED <<normVars, segVars, splitVars, fileVars, chatVars, serialVars, restVars>>

BatchNext ==
    \/ ProcessDocumentsFile
    \/ ProcessDocumentsSkip
    \/ LoadDocumentsFile
    \/ BatchReturn

SpecBatch == BatchInit /\ [][BatchNext]_vars

\* ---------------------------------------------------------------------------
\* Chunk assembler as a state machine: one call of chunk_single_file
\* ---------------------------------------------------------------------------

\* Documents the converter returns: an optional TOC over the headings of
\* HeadingPalette, a blank line, and up to MaxFileParas paragraphs, each a
\* heading, a sentence, or a line that quotes the marker "[SEP]".
MaxFileParas == 3

FileParaPalette ==
    HeadingPalette \cup {<<"Short", SP, "para", DOT>>, <<"Raw", SP, SEP, SP, "text">>}

FileDoc(hs, paras) ==
    IF hs = << >> THEN TextOf(paras)
    ELSE TocOf(hs) \o <<NL, NL>> \o TextOf(paras)

FileDocs ==
    {FileDoc(hs, paras) : hs \in SeqsUpTo(HeadingPalette, MaxTocLines),
                          paras \in SeqsUpTo(FileParaPalette, MaxFileParas)}

FileName == "doc"

\* split_oversized_chunk on every segment, as the loop of lines 207-209
\* calls it.
SegmentPieces(segments, max) ==
    [k \in 1..Len(segments) |-> split_oversized_chunk(segments[k], max)]

FileInit ==
    /\ file_conv \in {ConverterRaises} \cup {[raises |-> FALSE, doc |-> d] : d \in FileDocs}
    /\ file_max \in {4, MaxFileBudget}
    /\ file_pieces = << >>
    /\ document_chunks = [status |-> "pending", chunks |-> << >>]
    /\ NormIdle /\ SegIdle /\ SplitIdle /\ BatchIdle /\ OthersIdle

ChunkSingleFile ==
    /\ document_chunks.status = "pending"
    /\ \E r \in {read_doc(file_conv)} :
          /\ toc' = r.toc
          /\ text' = cleanup_plaintext(r.text)
          /\ \E segments \in {SegmentsOf(r)} :
                /\ text_chunks' = segments
                /\ file_pieces' = SegmentPieces(segments, file_max)
    /\ seg_done' = TRUE
    /\ document_chunks' = chunk_single_file(FileName, file_conv, file_max)
    /\ UNCHANGED <<file_conv, file_max, normVars, splitVars, batchVars,
                   chatVars, serialVars, restVars>>

FileNext == ChunkSingleFile

SpecFile == FileInit /\ [][FileNext]_vars

\* ---------------------------------------------------------------------------
\* History serialization as a state machine: a history is serialized for
\* the table and read back
\* ---------------------------------------------------------------------------

\* Histories of up to MaxHistory messages of any kind.
MaxHistory == 3

MessageKinds == {"human", "ai", "system", "tool"}

MessageContents == {"Hello", "Hi there!"}

Messages == [kind : MessageKinds, content : MessageContents]

SerialInit ==
    /\ history_in \in SeqsUpTo(Messages, MaxHistory)
    /\ serialized_history = << >>
    /\ restored_history = << >>
    /\ serial_pc = "start"
    /\ NormIdle /\ SegIdle /\ SplitIdle /\ BatchIdle /\ FileIdle /\ ChatIdle
    /\ RestIdle

SerializeHistory ==
    /\ serial_pc = "start"
    /\ serialized_history' = _serialize_history(history_in)
    /\ serial_pc' = "serialized"
    /\ UNCHANGED <<history_in, restored_history, normVars, segVars, splitVars,
                   batchVars, fileVars, chatVars, restVars>>

DeserializeHistory ==
    /\ serial_pc = "serialized"
    /\ restored_history' = _deserialize_history(serialized_history)
    /\ serial_pc' = "restored"
    /\ UNCHANGED <<history_in, serialized_history, normVars, segVars, splitVars,
                   batchVars, fileVars, chatVars, restVars>>

SerialNext == SerializeHistory \/ DeserializeHistory

SpecSerial == SerialInit /\ [][SerialNext]_vars

\* ---------------------------------------------------------------------------
\* ChatService as a state machine: calls on one service object
\* ---------------------------------------------------------------------------

\* Up to MaxCalls calls are made on the service.
MaxCalls == 2

GetOutcomes == {"ok", "error", "raises"}

SaveOutcomes == {"true", "false", "raises"}

Failures == {"none", "vector", "prompt", "llm"}

QueryText == "What is agile planning?"

ReplyText == "AI response"

\* A row the table holds before the service starts.
StoredRow ==
    [conversation_history |->
        << [role |-> "user", content |-> "Hello"],
           [role |-> "assistant", content |-> "Hi there!"] >>,
     current_step |-> 2,
     planner_details |-> None]

InitialTables == {EmptyDict, DictSet(EmptyDict, "s1", StoredRow)}

\* Arguments of a direct call of _update_session_data.
UpdateHistories == {<< >>, <<HumanMessage("Test message")>>}

UpdateSteps == {1, 3}

ConfirmedSteps == {0, 2}

\* What the LLM gives as propose_next_step: nothing (0) or a step.
LlmSteps == {0, 3}

\* What the collaborators of one process_query do.  An outcome that the
\* call cannot meet is fixed: those of the storage service when there is
\* none, that of the first save when no step is confirmed, that of the
\* second save when the call fails before it.
ProcessIO(confirmed_next_step) ==
    {io \in [load : GetOutcomes \cup {"none"}, save1 : SaveOutcomes \cup {"none"},
             save2 : SaveOutcomes \cup {"none"},
             failure : Failures, reply : {ReplyText}, propose : LlmSteps] :
        /\ ~session_storage_service =>
               io.load = "none" /\ io.save1 = "none" /\ io.save2 = "none"
        /\ confirmed_next_step = 0 => io.save1 = "none"
        /\ io.failure # "none" => io.save2 = "none" /\ io.propose = 0}

\* The outcomes a call to the storage service can have; none to choose
\* from when the service has no storage service.
StorageDoes(outcomes) ==
    IF session_storage_service THEN outcomes ELSE {"none"}

\* The service object as a record.
Svc ==
    [session_storage_service |-> session_storage_service,
     conversation_history |-> conversation_history,
     current_process_step |-> current_process_step,
     planner_details |-> planner_details,
     table |-> table,
     storage_last |-> storage_last]

\* The history a read of the session gives when the storage service works.
EffectiveHistory(svc, session_id) ==
    IF session_id \in DOMAIN svc.conversation_history
    THEN svc.conversation_history[session_id]
    ELSE IF session_id \in DOMAIN svc.table
    THEN _deserialize_history(svc.table[session_id].conversation_history)
    ELSE << >>

\* The step a read of the session gives when the storage service works.
EffectiveStep(svc, session_id) ==
    IF session_id \in DOMAIN svc.current_process_step
    THEN svc.current_process_step[session_id]
    ELSE IF session_id \in DOMAIN svc.table
    THEN svc.table[session_id].current_step
    ELSE 1

\* The service object becomes svc.
Becomes(svc) ==
    /\ conversation_history' = svc.conversation_history
    /\ current_process_step' = svc.current_process_step
    /\ planner_details' = svc.planner_details
    /\ table' = svc.table
    /\ storage_last' = svc.storage_last
    /\ chat_calls' = chat_calls + 1
    /\ UNCHANGED <<session_storage_service, normVars, segVars, splitVars,
                   batchVars, fileVars, serialVars, restVars>>

CalledWith(op, session_id, status, result, storage, confirmed, proposed) ==
    chat_call' =
        [op |-> op, session_id |-> session_id, status |-> status,
         result |-> result, storage |-> storage,
         in_memory |-> session_id \in DOMAIN conversation_history,
         before |-> EffectiveHistory(Svc, session_id),
         query_text |-> QueryText, reply |-> ReplyText,
         step_before |-> EffectiveStep(Svc, session_id),
         confirmed_next_step |-> confirmed,
         proposed_next_step |-> proposed]

Called(op, session_id, status, result, storage) ==
    CalledWith(op, session_id, status, result, storage, 0, 0)

ChatInit ==
    /\ session_storage_service \in BOOLEAN
    /\ conversation_history = EmptyDict
    /\ current_process_step = EmptyDict
    /\ planner_details = EmptyDict
    /\ table \in IF session_storage_service THEN InitialTables ELSE {EmptyDict}
    /\ storage_last = [s \in Sessions |-> "none"]
    /\ chat_call = NoCall
    /\ chat_calls = 0
    /\ NormIdle /\ SegIdle /\ SplitIdle /\ BatchIdle /\ FileIdle /\ SerialIdle
    /\ RestIdle

GetSessionData ==
    /\ chat_calls < MaxCalls
    /\ \E session_id \in Sessions, outcome \in StorageDoes(GetOutcomes) :
          \E got \in {_get_session_data(Svc, session_id, outcome)} :
              /\ Becomes(got.svc)
              /\ Called("_get_session_data", session_id, "ok", FALSE, outcome)

UpdateSessionData ==
    /\ chat_calls < MaxCalls
    /\ \E session_id \in Sessions, history \in UpdateHistories,
          step \in UpdateSteps, outcome \in StorageDoes(SaveOutcomes) :
          /\ Becomes(_update_session_data(Svc, session_id, history, step, None,
                                          outcome))
          /\ Called("_update_session_data", session_id, "ok", FALSE, outcome)

DeleteSession ==
    /\ chat_calls < MaxCalls
    /\ \E session_id \in Sessions, outcome \in StorageDoes(SaveOutcomes) :
          \E deleted \in {delete_session(Svc, session_id, outcome)} :
              /\ Becomes(deleted.svc)
              /\ Called("delete_session", session_id, "ok", deleted.result,
                        outcome)

ProcessQuery ==
    /\ chat_calls < MaxCalls
    /\ \E session_id \in Sessions, confirmed_next_step \in ConfirmedSteps :
          \E io \in ProcessIO(confirmed_next_step) :
          \E done \in {process_query(Svc, session_id, QueryText,
                                     confirmed_next_step, io)} :
              /\ Becomes(done.svc)
              /\ CalledWith("process_query", session_id, done.status, FALSE,
                            io.load, confirmed_next_step,
                            done.proposed_next_step)

ChatNext == GetSessionData \/ UpdateSessionData \/ DeleteSession \/ ProcessQuery

SpecChat == ChatInit /\ [][ChatNext]_vars

\* The while loop of _process_with_fixed_size_chunking as a state machine:
\* the token list of one content, windowed in one step.
WindowInit ==
    /\ window_tokens \in TokenLists
    /\ window_max \in 1..MaxWindow
    /\ window_overlap \in 0..(window_max - 1)
    /\ windows = << >>
    /\ window_pc = "start"
    /\ NormIdle /\ SegIdle /\ SplitIdle /\ BatchIdle /\ FileIdle
    /\ ChatIdle /\ SerialIdle /\ UiIdle

FixedSizeChunking ==
    /\ window_pc = "start"
    /\ windows' = FixedWindows(window_tokens, 0, 1, window_max, window_overlap)
    /\ window_pc' = "done"
    /\ UNCHANGED <<window_tokens, window_max, window_overlap>>
    /\ UNCHANGED <<normVars, segVars, splitVars, batchVars, fileVars, chatVars,
                   serialVars, uiVars>>

WindowNext == FixedSizeChunking

SpecWindow == WindowInit /\ [][WindowNext]_vars

\* ---------------------------------------------------------------------------
\* reflex_ui ChatState: event handlers and background tasks
\* ---------------------------------------------------------------------------

\* An event handler runs under the state lock from start to end.  A
\* background task holds the lock only inside "async with self" and gives
\* way at every await, so each of its steps below goes from one await to
\* the next.  The explain and tasks flags are off and no file is uploaded.

\* At most MaxRequests background tasks are started.
MaxRequests == 2

\* The text a task writes when its request ends (response or error text).
ReplyTexts == <<"reply 1", "reply 2", "reply 3", "reply 4">>

CannotSend == "Cannot send an empty message"

\* What the backend answers: a response, with a proposed_next_step (0: none),
\* or an error.
Responses ==
    {[ok |-> TRUE, proposed_next_step |-> p] : p \in {0, 3}}
        \cup {[ok |-> FALSE, proposed_next_step |-> 0]}

UserMessage(t) == [text |-> t, is_ai |-> FALSE, request |-> 0, writer |-> 0]

\* The AI placeholder appended for request k.
Placeholder(k) == [text |-> "", is_ai |-> TRUE, request |-> k, writer |-> 0]

\* self.messages[-1]["text"] = t, done by task k on a list that is not empty.
WriteLast(msgs, t, k) ==
    [msgs EXCEPT ![Len(msgs)] = [@ EXCEPT !.text = t, !.writer = k]]

UiOthersUnchanged ==
    UNCHANGED <<normVars, segVars, splitVars, batchVars, fileVars, chatVars,
                serialVars, windowVars>>

UiInit ==
    /\ messages = << >>
    /\ processing = FALSE
    /\ proposed_next_step = 0
    /\ confirmation_in_progress = FALSE
    /\ current_vino_step = 1
    /\ ui_tasks = << >>
    /\ ui_fault = "none"
    /\ NormIdle /\ SegIdle /\ SplitIdle /\ BatchIdle /\ FileIdle
    /\ ChatIdle /\ SerialIdle /\ WindowIdle

\* send_message_with_text with a text that is not empty: nothing happens
\* while processing; otherwise the user message and the placeholder are
\* appended and generate_response is queued.
SendMessageWithText ==
    /\ Len(ui_tasks) < MaxRequests
    /\ ~processing
    /\ messages' = messages \o <<UserMessage("user"), Placeholder(Len(ui_tasks) + 1)>>
    /\ processing' = TRUE
    /\ ui_tasks' = Append(ui_tasks,
                          [kind |-> "generate", pc |-> "queued", confirmed_step |-> 0])
    /\ ui_fault' = "none"
    /\ UNCHANGED <<proposed_next_step, confirmation_in_progress, current_vino_step>>
    /\ UiOthersUnchanged

\* generate_response from its start to the POST: the check of the user
\* message (messages[-2]) and the payload.
GenerateResponseStart ==
    \E k \in 1..Len(ui_tasks) :
        /\ ui_tasks[k].kind = "generate"
        /\ ui_tasks[k].pc = "queued"
        /\ IF messages = << >>
           THEN /\ processing' = FALSE
                /\ ui_tasks' = [ui_tasks EXCEPT ![k].pc = "ended"]
                /\ ui_fault' = "none"
                /\ UNCHANGED messages
           ELSE IF Len(messages) = 1
           THEN /\ ui_tasks' = [ui_tasks EXCEPT ![k].pc = "ended"]
                /\ ui_fault' = "IndexError"
                /\ UNCHANGED <<messages, processing>>
           ELSE IF messages[Len(messages) - 1].text = ""
           THEN /\ messages' = WriteLast(messages, CannotSend, k)
                /\ processing' = FALSE
                /\ ui_tasks' = [ui_tasks EXCEPT ![k].pc = "ended"]
                /\ ui_fault' = "none"
           ELSE /\ ui_tasks' = [ui_tasks EXCEPT ![k].pc = "posted"]
                /\ ui_fault' = "none"
                /\ UNCHANGED <<messages, processing>>
        /\ UNCHANGED <<proposed_next_step, confirmation_in_progress,
                       current_vino_step>>
        /\ UiOthersUnchanged

\* generate_response when its request ends: the "async with self" block
\* after the POST, or that of the except branch that applies.  On an
\* empty list the write raises IndexError, in the except branch again.
GenerateResponseReply ==
    \E k \in 1..Len(ui_tasks), response \in Responses :
        /\ ui_tasks[k].kind = "generate"
        /\ ui_tasks[k].pc = "posted"
        /\ ui_tasks' = [ui_tasks EXCEPT ![k].pc = "finally"]
        /\ IF messages = << >>
           THEN /\ ui_fault' = "IndexError on empty list"
                /\ UNCHANGED <<messages, proposed_next_step>>
           ELSE /\ messages' = WriteLast(messages, ReplyTexts[k], k)
                /\ proposed_next_step' = IF response.ok
                                         THEN response.proposed_next_step
                                         ELSE proposed_next_step
                /\ ui_fault' = "none"
        /\ UNCHANGED <<processing, confirmation_in_progress, current_vino_step>>
        /\ UiOthersUnchanged

\* The finally block of generate_response.
GenerateResponseFinally ==
    \E k \in 1..Len(ui_tasks) :
        /\ ui_tasks[k].kind = "generate"
        /\ ui_tasks[k].pc = "finally"
        /\ processing' = FALSE
        /\ ui_tasks' = [ui_tasks EXCEPT ![k].pc = "ended"]
        /\ ui_fault' = "none"
        /\ UNCHANGED <<messages, proposed_next_step, confirmation_in_progress,
                       current_vino_step>>
        /\ UiOthersUnchanged

\* decline_step_change with a proposal pending.
DeclineStepChange ==
    /\ proposed_next_step # 0
    /\ messages' = Append(messages, UserMessage("declined"))
    /\ proposed_next_step' = 0
    /\ ui_fault' = "none"
    /\ UNCHANGED <<processing, confirmation_in_progress, current_vino_step, ui_tasks>>
    /\ UiOthersUnchanged

\* confirm_step_change up to its first "async with self": the task goes on
\* only with a proposal pending and no confirmation in progress.
ConfirmStepChangeCheck ==
    /\ Len(ui_tasks) < MaxRequests
    /\ proposed_next_step # 0
    /\ ~confirmation_in_progress
    /\ ui_tasks' = Append(ui_tasks,
                          [kind |-> "confirm", pc |-> "checked", confirmed_step |-> 0])
    /\ ui_fault' = "none"
    /\ UNCHANGED <<messages, processing, proposed_next_step,
                   confirmation_in_progress, current_vino_step>>
    /\ UiOthersUnchanged

\* The first "async with self" block of confirm_step_change and the POST.
ConfirmStepChangeLock ==
    \E k \in 1..Len(ui_tasks) :
        /\ ui_tasks[k].kind = "confirm"
        /\ ui_tasks[k].pc = "checked"
        /\ IF proposed_next_step = 0
           THEN /\ ui_tasks' = [ui_tasks EXCEPT ![k].pc = "ended"]
                /\ UNCHANGED <<messages, processing, proposed_next_step,
                               confirmation_in_progress>>
           ELSE /\ confirmation_in_progress' = TRUE
                /\ processing' = TRUE
                /\ messages' = messages \o <<UserMessage("confirm"), Placeholder(k)>>
                /\ proposed_next_step' = 0
                /\ ui_tasks' = [ui_tasks EXCEPT
                                    ![k] = [kind |-> "confirm", pc |-> "posted",
                                            confirmed_step |-> proposed_next_step]]
        /\ ui_fault' = "none"
        /\ UNCHANGED current_vino_step
        /\ UiOthersUnchanged

\* confirm_step_change when its request ends; the backend answers with the
\* confirmed step as current_step.
ConfirmStepChangeReply ==
    \E k \in 1..Len(ui_tasks), response \in Responses :
        /\ ui_tasks[k].kind = "confirm"
        /\ ui_tasks[k].pc = "posted"
        /\ response.proposed_next_step = 0
        /\ ui_tasks' = [ui_tasks EXCEPT ![k].pc = "finally"]
        /\ IF messages = << >>
           THEN /\ ui_fault' = "IndexError on empty list"
                /\ UNCHANGED <<messages, current_vino_step>>
           ELSE /\ messages' = WriteLast(messages, ReplyTexts[k], k)
                /\ current_vino_step' = IF response.ok
                                        THEN ui_tasks[k].confirmed_step
                                        ELSE current_vino_step
                /\ ui_fault' = "none"
        /\ UNCHANGED <<processing, proposed_next_step, confirmation_in_progress>>
        /\ UiOthersUnchanged

\* The finally block of confirm_step_change.
ConfirmStepChangeFinally ==
    \E k \in 1..Len(ui_tasks) :
        /\ ui_tasks[k].kind = "confirm"
        /\ ui_tasks[k].pc = "finally"
        /\ processing' = FALSE
        /\ confirmation_in_progress' = FALSE
        /\ ui_tasks' = [ui_tasks EXCEPT ![k].pc = "ended"]
        /\ ui_fault' = "none"
        /\ UNCHANGED <<messages, proposed_next_step, current_vino_step>>
        /\ UiOthersUnchanged

\* clear_messages: the proposal and confirmation_in_progress are not reset.
ClearMessages ==
    /\ messages' = << >>
    /\ processing' = FALSE
    /\ current_vino_step' = 1
    /\ ui_fault' = "none"
    /\ UNCHANGED <<proposed_next_step, confirmation_in_progress, ui_tasks>>
    /\ UiOthersUnchanged

UiNext ==
    \/ SendMessageWithText
    \/ GenerateResponseStart
    \/ GenerateResponseReply
    \/ GenerateResponseFinally
    \/ DeclineStepChange
    \/ ConfirmStepChangeCheck
    \/ ConfirmStepChangeLock
    \/ ConfirmStepChangeReply
    \/ ConfirmStepChangeFinally
    \/ ClearMessages

SpecUi == UiInit /\ [][UiNext]_vars

\* ---------------------------------------------------------------------------
\* Properties of the splitter (SpecSplit)
\* ---------------------------------------------------------------------------

SplitReturned == split_result.status = "ok"

OverBudget == TokenCount(chunk_text) > max_tokens

\* A body that no strategy can split: at most one word, no list marker and
\* no sentence boundary.
IrreducibleUnit(piece) ==
    LET c == Content(piece) IN
    /\ Len(Words(c)) <= 1
    /\ ~BulletSearch(c)
    /\ Len(SentenceSplit(c)) <= 1

\* C1: every piece split_oversized_chunk returns has a token count, taken
\* on its full text (heading, separator and body), of at most max_tokens,
\* unless its body is a single unit that no strategy can split.
C1_TokenBudget ==
    SplitReturned =>
        \A k \in 1..Len(split_result.chunks) :
            \/ TokenCount(split_result.chunks[k]) <= max_tokens
            \/ IrreducibleUnit(split_result.chunks[k])

\* An over-budget segment under a heading came back as three or more
\* pieces, all within budget.
C1_Witness ==
    /\ SplitReturned
    /\ OverBudget
    /\ Heading(chunk_text) # << >>
    /\ Len(split_result.chunks) >= 3
    /\ \A k \in 1..Len(split_result.chunks) :
           TokenCount(split_result.chunks[k]) <= max_tokens

\* C2: split_oversized_chunk terminates on every input: a piece that is
\* still over budget after a strategy was applied to it is returned as it
\* is instead of being split again without end.
C2_Terminates ==
    split_result.status \notin {"pending", "idle"} =>
        split_result.status # "RecursionError"

\* The words of the bodies of the returned pieces, in order.
RECURSIVE PieceWords(_)
PieceWords(chunks) ==
    IF chunks = << >> THEN << >>
    ELSE Words(Content(chunks[1])) \o PieceWords(Tail(chunks))

\* The words of the segment body, list markers not counted as words.
BodyWords == Words(Join(BulletSplit(Content(chunk_text)), <<SP>>))

\* C3: for an over-budget segment, the bodies of the returned pieces, put
\* together in order, are word for word the body of the segment: no word
\* dropped, merged with its neighbour, duplicated or moved.
C3_NoContentLoss ==
    SplitReturned /\ OverBudget => PieceWords(split_result.chunks) = BodyWords

SplitEnded == split_result.status \notin {"pending", "idle"}

\* ceil(a / b) for a >= 0 and b > 0
CeilDiv(a, b) == (a + b - 1) \div b

\* A segment body made of words only: no list marker, no ".".
WordsOnly(content) == ~BulletSearch(content) /\ ~InList(content, DOT)

\* C13: an over-budget segment whose body is N words, with no list marker
\* and no ".", is split by word count: the call returns
\* ceil(N / (max_tokens * 0.75)) pieces, each within budget except
\* possibly the last.
C13_WordCountPieces ==
    SplitEnded /\ OverBudget /\ WordsOnly(Content(chunk_text)) =>
        /\ SplitReturned
        /\ split_calls[1].strategy = "words"
        /\ Len(split_result.chunks)
             = CeilDiv(4 * Len(Words(Content(chunk_text))), 3 * max_tokens)
        /\ \A k \in 1..(Len(split_result.chunks) - 1) :
               TokenCount(split_result.chunks[k]) <= max_tokens

\* The call of split_calls that made call j: the latest call before j that
\* is one level up.
Caller(j) ==
    CHOOSE k \in 1..(j - 1) :
        /\ split_calls[k].depth = split_calls[j].depth - 1
        /\ \A m \in (k + 1)..(j - 1) :
               split_calls[m].depth >= split_calls[j].depth

\* The pieces _split_by_list_items makes of the segment.
ListPieces ==
    _split_by_list_items(Content(chunk_text), Heading(chunk_text), max_tokens)

\* C14 as stated: for an over-budget segment whose body is a bulleted
\* list, no call at any recursion level applies the sentence strategy or
\* the word-count strategy.
C14_ListStrategyOnly ==
    SplitEnded /\ OverBudget /\ BulletSearch(Content(chunk_text)) =>
        \A k \in 1..Len(split_calls) : split_calls[k].strategy = "list"

\* C14, amended: for an over-budget segment whose body is a bulleted list,
\* the outermost call applies list-item splitting; another strategy is
\* applied only inside a recursive call, on a piece that is over budget,
\* the calls one level down being on pieces list-item splitting made; when
\* all these pieces are within budget they are the result.
C14_ListStrategyFirst ==
    SplitEnded /\ OverBudget /\ BulletSearch(Content(chunk_text)) =>
        /\ split_calls[1].depth = 0
        /\ split_calls[1].strategy = "list"
        /\ \A k \in 2..Len(split_calls) :
               /\ split_calls[k].depth >= 1
               /\ TokenCount(split_calls[k].chunk_text) > max_tokens
               /\ split_calls[k].depth = 1 =>
                      \E p \in 1..Len(ListPieces) :
                          ListPieces[p] = split_calls[k].chunk_text
        /\ (\A p \in 1..Len(ListPieces) : TokenCount(ListPieces[p]) <= max_tokens)
               /\ ListPieces # << >>
             => /\ Len(split_calls) = 1
                /\ split_result = [status |-> "ok", chunks |-> ListPieces]

\* A bulleted segment came back split, one of its list items having been
\* split further by word count.
C14_Witness ==
    /\ SplitReturned
    /\ OverBudget
    /\ BulletSearch(Content(chunk_text))
    /\ Len(split_result.chunks) >= 3
    /\ \E k \in 2..Len(split_calls) : split_calls[k].strategy = "words"

\* C20: a piece that is still over budget after the sentence strategy was
\* applied is next reduced by the word-count strategy: every call made by
\* a call that applied the sentence strategy applies the word-count
\* strategy.
C20_SentenceThenWords ==
    SplitEnded =>
        \A j \in 2..Len(split_calls) :
            split_calls[Caller(j)].strategy = "sentence"
                => split_calls[j].strategy = "words"

\* The pieces _split_by_sentences makes of the segment.
SentencePieces ==
    _split_by_sentences(Content(chunk_text), Heading(chunk_text), max_tokens)

\* The words of the sub-units, in order.
RECURSIVE UnitWords(_)
UnitWords(units) ==
    IF units = << >> THEN << >>
    ELSE Words(units[1]) \o UnitWords(Tail(units))

\* C21: the list-item and the sentence strategy take the sub-units in
\* order, emit the accumulator when the next sub-unit would exceed the
\* budget, the sub-unit becoming the new accumulator also when it is the
\* last one, and emit the remaining accumulator at the end: every sub-unit
\* is in exactly one emitted piece, so the bodies of the pieces hold the
\* sub-units' words, each once and in order.
C21_EverySubUnitEmitted ==
    SplitEnded /\ OverBudget =>
        /\ Strategy(Content(chunk_text)) = "list" =>
               PieceWords(ListPieces) = UnitWords(BulletSplit(Content(chunk_text)))
        /\ Strategy(Content(chunk_text)) = "sentence" =>
               PieceWords(SentencePieces)
                 = UnitWords(SentenceSplit(Content(chunk_text)))

\* The text carries the heading of the segment as its prefix, in front of a
\* body that is not empty; a text of a headingless segment has no marker.
CarriesHeading(piece) ==
    IF Heading(chunk_text) # << >>
    THEN /\ StartsAt(piece, 1, Heading(chunk_text) \o <<SP, SEP, SP>>)
         /\ Len(piece) > Len(Heading(chunk_text)) + 3
    ELSE ~Contains(piece, <<SEP>>)

\* C22: every piece split_oversized_chunk returns for a segment with a
\* body that needed splitting begins with the heading of the segment and " [SEP] ",
\* at every recursion depth and for every strategy, and the budget is
\* checked on the prefixed text: a piece is split again exactly when its
\* prefixed text is over budget, so every returned piece is within budget
\* as prefixed.  Pieces of a headingless segment carry no prefix.
C22_HeadingPrefix ==
    SplitEnded /\ OverBudget /\ Content(chunk_text) # << >> =>
        /\ \A k \in 1..Len(split_calls) :
               /\ CarriesHeading(split_calls[k].chunk_text)
               /\ TokenCount(split_calls[k].chunk_text) > max_tokens
        /\ SplitReturned =>
               \A k \in 1..Len(split_result.chunks) :
                   /\ CarriesHeading(split_result.chunks[k])
                   /\ TokenCount(split_result.chunks[k]) <= max_tokens

\* A segment under a heading was split at two recursion depths and came
\* back as three or more pieces.
C22_Witness ==
    /\ SplitReturned
    /\ OverBudget
    /\ Heading(chunk_text) # << >>
    /\ Len(split_result.chunks) >= 3
    /\ \E k \in 1..Len(split_calls) : split_calls[k].depth >= 1

\* ---------------------------------------------------------------------------
\* Properties of the normalizer (SpecNorm)
\* ---------------------------------------------------------------------------

\* text.replace(t, "") for every token t of the list, in the list's order.
RECURSIVE RemoveListed(_, _)
RemoveListed(t, tokens) ==
    IF tokens = << >> THEN t
    ELSE RemoveListed(StrReplace(t, tokens[1], << >>), Tail(tokens))

\* Steps 2 to 5 of cleanup_plaintext.
AfterStep1(t) ==
    WhitespaceSub(ParagraphBreakSub(NewlineReplaceSub(LineEndingSub(t))))

\* C24: step 1 of cleanup_plaintext removes every occurrence of each of the
\* four artifact tokens "[image]", "[]", "[figure]" and "[table]": the
\* result of one cleanup is what steps 2 to 5 make of the text with all
\* four tokens taken out.
C24_FourArtifactsRemoved ==
    cleanups = 1 =>
        text_cleaned = AfterStep1(RemoveListed(raw_text, REMOVE_ARTIFACTS))

\* The newline at position i of t is kept by the claim's rule: it is next
\* to another newline or in front of the bullet marker "- ".
KeptNewline(t, i) ==
    \/ i > 1 /\ t[i - 1] = NL
    \/ StartsAt(t, i + 1, <<NL>>)
    \/ StartsAt(t, i + 1, <<DASH, SP>>)

\* An input that steps 1, 2, 4 and 5 leave alone: no artifact token, no
\* carriage return, no run of three newlines, no space after a space.
PlainInput(t) ==
    /\ RemoveArtifacts(t) = t
    /\ \A i \in 1..Len(t) : t[i] # CR
    /\ ~Contains(t, <<NL, NL, NL>>)
    /\ ~Contains(t, <<SP, SP>>)

SharedTokens(a, b) ==
    LET a_end == a.start_token + Len(a.chunk_tokens)
        b_end == b.start_token + Len(b.chunk_tokens)
        last == IF a_end < b_end THEN a_end ELSE b_end
    IN  IF last > b.start_token THEN last - b.start_token ELSE 0

\* C26: with 0 <= OVERLAP_TOKENS < MAX_CHUNK_TOKENS, every two consecutive
\* chunks of the fixed-window mode share exactly OVERLAP_TOKENS tokens, the
\* last OVERLAP_TOKENS tokens of the one being the first OVERLAP_TOKENS
\* tokens of the next, also for the final pair and when whitespace-only
\* windows were skipped between the two.
C26_ExactOverlap ==
    window_pc = "done" =>
        \A k \in 1..(Len(windows) - 1) :
            SharedTokens(windows[k], windows[k + 1]) = window_overlap

\* C30: within one process_documents batch all chunk identifiers
\* (metadata.doc_id) are pairwise distinct, whatever the files of allowed
\* types and the subdirectories they lie in.
C30_DistinctDocIds ==
    batch_mode = "process_documents" =>
        \A i, j \in 1..Len(all_chunk_data) :
            i # j => all_chunk_data[i].metadata.doc_id # all_chunk_data[j].metadata.doc_id

\* C5: cleanup_plaintext is idempotent: a second application to its own
\* output changes nothing.
C5_Idempotent == cleanups = 2 => text_cleaned = prev_cleaned

\* ---------------------------------------------------------------------------
\* Properties of the segmenter (SpecSeg)
\* ---------------------------------------------------------------------------

\* The non-empty paragraphs of the text, stripped.
RECURSIVE StrippedParas(_)
StrippedParas(paragraphs) ==
    IF paragraphs = << >> THEN << >>
    ELSE (IF Strip(paragraphs[1]) # << >> THEN <<Strip(paragraphs[1])>> ELSE << >>)
            \o StrippedParas(Tail(paragraphs))

Paras == StrippedParas(StrSplit(text, <<NL, NL>>))

\* Paragraph i of the paragraphs P is read as a heading: its text is a TOC
\* heading (H, the headings of the TOC) that fewer earlier paragraphs carry
\* than the TOC lists.
MatchedAt(P, H, i) ==
    Cardinality({j \in 1..(i - 1) : P[j] = P[i]})
        < Cardinality({k \in 1..Len(H) : H[k] = P[i]})

\* The numbers of the paragraphs read as headings.
MatchedSet(P, H) == {i \in 1..Len(P) : MatchedAt(P, H, i)}

\* The least element of a non-empty set of numbers.
Least(S) == CHOOSE i \in S : \A j \in S : i <= j

\* The next heading paragraph after i (M, the heading paragraphs), or one
\* past the last of n paragraphs.
NextMatched(M, n, i) ==
    IF \E j \in M : j > i THEN Least({j \in M : j > i}) ELSE n + 1

\* The headed segments in body order: for every heading paragraph that is
\* followed by content, the heading and the paragraphs up to the next one.
RECURSIVE HeadedSegmentsFrom(_, _, _)
HeadedSegmentsFrom(P, M, i) ==
    IF i > Len(P) THEN << >>
    ELSE IF i \in M /\ NextMatched(M, Len(P), i) > i + 1
    THEN <<WithHeading(P[i],
                       Join(SubSeq(P, i + 1, NextMatched(M, Len(P), i) - 1), <<SP>>))>>
            \o HeadedSegmentsFrom(P, M, i + 1)
    ELSE HeadedSegmentsFrom(P, M, i + 1)

\* The heading paragraphs of the text under the TOC.
Matched == MatchedSet(Paras, TocHeadings(toc))

ExampleToc == <<DASH, SP, "Intro", NL, DASH, SP, "Details">>

ExampleText ==
    <<"Intro", NL, NL, "Short", SP, "para", DOT, NL, NL,
      "Details", NL, NL, "More", SP, "text", DOT>>

ExampleSegments ==
    << <<"Intro", SP, SEP, SP, "Short", SP, "para", DOT>>,
       <<"Details", SP, SEP, SP, "More", SP, "text", DOT>> >>

\* C9: when a heading is matched, split_text returns the headed segments
\* in the order their headings stand in the body, each as
\* "{heading} [SEP] {body}" with the paragraphs up to the next matched
\* heading as body; the TOC "- Intro\n- Details" with the body
\* "Intro\n\nShort para.\n\nDetails\n\nMore text." gives exactly
\* "Intro [SEP] Short para." and "Details [SEP] More text.".
C9_BodyOrder ==
    seg_done =>
        /\ Matched # {} => text_chunks = HeadedSegmentsFrom(Paras, Matched, 1)
        /\ toc = ExampleToc /\ text = ExampleText => text_chunks = ExampleSegments

\* The TOC lists Details before Intro, the body has Intro first, and the
\* segments come in body order.
C9_Witness ==
    /\ seg_done
    /\ toc = TocOf(<< <<"Details">>, <<"Intro">> >>)
    /\ text = ExampleText
    /\ text_chunks = ExampleSegments

\* C10: content paragraphs in front of the first matched heading come out
\* as exactly one headingless segment, ahead of the headed segments.
C10_LeadingContentKept ==
    seg_done /\ Matched # {} /\ Least(Matched) > 1 =>
        /\ text_chunks # << >>
        /\ text_chunks[1] = Join(SubSeq(Paras, 1, Least(Matched) - 1), <<SP>>)
        /\ Cardinality({k \in 1..Len(text_chunks) :
                            ~Contains(text_chunks[k], <<SEP>>)}) = 1

\* Number of positions of sequence q that hold x.
Occurrences(q, x) == Cardinality({k \in 1..Len(q) : q[k] = x})

\* The bodies of the segments, one after the other.
RECURSIVE SegmentBodies(_)
SegmentBodies(chunks) ==
    IF chunks = << >> THEN << >>
    ELSE Content(chunks[1]) \o SegmentBodies(Tail(chunks))

\* Headings that the TOC lists exactly once and that the text has as a
\* paragraph more than once.
RepeatedOnceListed ==
    {h \in HeadingPalette :
        /\ Occurrences(TocHeadings(toc), h) = 1
        /\ Occurrences(Paras, h) >= 2}

\* C11: a heading that the TOC lists once is matched by at most one
\* paragraph of the body: at most one segment carries it as heading, and
\* every later paragraph equal to it is content of a segment's body.
C11_MatchedOnce ==
    seg_done =>
        \A h \in RepeatedOnceListed :
            /\ Cardinality({k \in 1..Len(text_chunks) :
                                Heading(text_chunks[k]) = h}) <= 1
            /\ Occurrences(SegmentBodies(text_chunks), h[1]) = Occurrences(Paras, h) - 1

\* The TOC lists Intro once; the text has it as first and as third
\* paragraph, and the third is content of the Intro segment.
C11_Witness ==
    /\ seg_done
    /\ toc = TocOf(<< <<"Intro">> >>)
    /\ text = TextOf(<< <<"Intro">>, <<"Short", SP, "para", DOT>>, <<"Intro">> >>)
    /\ text_chunks = << <<"Intro", SP, SEP, SP, "Short", SP, "para", DOT, SP, "Intro">> >>

\* Headings that the TOC lists two or more times and that the text has as
\* a paragraph.
ListedTwice ==
    {h \in HeadingPalette :
        /\ Occurrences(TocHeadings(toc), h) >= 2
        /\ Occurrences(Paras, h) >= 1}

\* C23: a heading that the TOC lists two or more times is still matched by
\* one paragraph of the body only: at most one segment carries it as
\* heading, and every later paragraph equal to it is content of a
\* segment's body.
C23_ListedTwiceMatchedOnce ==
    seg_done =>
        \A h \in ListedTwice :
            /\ Cardinality({k \in 1..Len(text_chunks) :
                                Heading(text_chunks[k]) = h}) <= 1
            /\ Occurrences(SegmentBodies(text_chunks), h[1])
                 = Occurrences(Paras, h) - 1

\* C12: every segment split_text emits has a body that is not empty; a
\* matched heading directly followed by another matched heading, or by the
\* end of the text, gives no segment; split_text("", "") is the empty
\* list.
C12_NoEmptyBody ==
    seg_done =>
        /\ \A k \in 1..Len(text_chunks) : Content(text_chunks[k]) # << >>
        /\ Cardinality({k \in 1..Len(text_chunks) :
                            Contains(text_chunks[k], <<SEP>>)})
              = Cardinality({i \in Matched :
                                NextMatched(Matched, Len(Paras), i) > i + 1})
        /\ toc = << >> /\ text = << >> => text_chunks = << >>

\* Details is matched as the last paragraph, right after the body of
\* Intro, and gives no segment.
C12_Witness ==
    /\ seg_done
    /\ toc = ExampleToc
    /\ text = TextOf(<< <<"Intro">>, <<"Short", SP, "para", DOT>>, <<"Details">> >>)
    /\ text_chunks = << <<"Intro", SP, SEP, SP, "Short", SP, "para", DOT>> >>

\* ---------------------------------------------------------------------------
\* Properties of the chunk assembler (SpecFile)
\* ---------------------------------------------------------------------------

\* For every piece of the per-segment results, in order, the number of the
\* segment it comes from.
RECURSIVE OriginsFrom(_, _)
OriginsFrom(pieces, k) ==
    IF k > Len(pieces) THEN << >>
    ELSE [j \in 1..Len(pieces[k].chunks) |-> k] \o OriginsFrom(pieces, k + 1)

\* The headings of the headed segments, in body order: the heading
\* paragraphs that are followed by content.
RECURSIVE SegmentHeadingsFrom(_, _, _)
SegmentHeadingsFrom(P, M, i) ==
    IF i > Len(P) THEN << >>
    ELSE IF i \in M /\ NextMatched(M, Len(P), i) > i + 1
    THEN <<P[i]>> \o SegmentHeadingsFrom(P, M, i + 1)
    ELSE SegmentHeadingsFrom(P, M, i + 1)

\* The section every chunk should carry, given the headings of the
\* segments (none when the only segment is the headingless one) and the
\* segment each chunk comes from.
ExpectedSections(headings, origins) ==
    [c \in 1..Len(origins) |->
        IF headings = << >> THEN NoHeading ELSE headings[origins[c]]]

\* C15: for every chunk chunk_single_file emits, metadata.section is the
\* heading of the segment the chunk descends from, and it is "No Heading"
\* exactly when the chunk descends from the headingless segment.
C15_SectionIsHeading ==
    document_chunks.status = "ok" =>
        [c \in 1..Len(document_chunks.chunks) |->
            document_chunks.chunks[c].metadata.section]
          = ExpectedSections(SegmentHeadingsFrom(Paras, Matched, 1),
                             OriginsFrom(file_pieces, 1))

\* ---------------------------------------------------------------------------
\* Properties of history serialization (SpecSerial)
\* ---------------------------------------------------------------------------

\* A history made of human, AI and system messages only.
PlainHistory(h) ==
    \A k \in 1..Len(h) : h[k].kind \in {"human", "ai", "system"}

RoleOf(kind) ==
    CASE kind = "human" -> "user"
      [] kind = "ai" -> "assistant"
      [] kind = "system" -> "system"
      [] OTHER -> "none"

\* C19: for a history of human, AI and system messages, the serialized
\* form has one entry per message, in order, with the message's content and
\* role user, assistant or system for human, AI or system; deserializing it
\* gives back the history: same length, order, kinds and contents.
C19_RoundTrip ==
    PlainHistory(history_in) =>
        /\ serial_pc \in {"serialized", "restored"} =>
              /\ Len(serialized_history) = Len(history_in)
              /\ \A k \in 1..Len(history_in) :
                    /\ serialized_history[k].role = RoleOf(history_in[k].kind)
                    /\ serialized_history[k].content = history_in[k].content
        /\ serial_pc = "restored" =>
              /\ Len(restored_history) = Len(history_in)
              /\ \A k \in 1..Len(history_in) :
                    /\ restored_history[k].kind = history_in[k].kind
                    /\ restored_history[k].content = history_in[k].content

\* A history with a message of each of the three kinds has been
\* serialized and read back.
C19_Witness ==
    /\ serial_pc = "restored"
    /\ Len(history_in) = 3
    /\ {history_in[k].kind : k \in 1..3} = {"human", "ai", "system"}
    /\ Len(restored_history) = 3

\* ---------------------------------------------------------------------------
\* Properties of the chat service (SpecChat)
\* ---------------------------------------------------------------------------

InMemory(session_id) ==
    \/ session_id \in DOMAIN conversation_history
    \/ session_id \in DOMAIN current_process_step
    \/ session_id \in DOMAIN planner_details

\* C16: on a service that has a storage service, a session is in the
\* in-memory dicts only if the latest call the service made to the storage
\* service for that session failed; after a save that the storage service
\* accepted the session is not in memory.
C16_MemoryOnlyAfterFailure ==
    session_storage_service =>
        /\ \A s \in Sessions : InMemory(s) => storage_last[s] = "failed"
        /\ chat_call.op = "_update_session_data" /\ chat_call.storage = "true"
              => ~InMemory(chat_call.session_id)

\* A session fell back to memory and a later save that the storage service
\* accepted removed it from memory.
C16_Witness ==
    /\ session_storage_service
    /\ chat_call.op = "_update_session_data"
    /\ chat_call.storage = "true"
    /\ chat_call.in_memory
    /\ ~InMemory(chat_call.session_id)

\* C17: after delete_session(s), s is in none of the three in-memory
\* dicts, whatever the persistent delete returned or raised, and the call
\* returned True exactly when the persistent delete returned true or s was
\* in memory.
C17_DeleteSession ==
    chat_call.op = "delete_session" =>
        /\ ~InMemory(chat_call.session_id)
        /\ chat_call.result
             <=> \/ session_storage_service /\ chat_call.storage = "true"
                 \/ chat_call.in_memory

\* delete_session returned True for a session that was in memory while the
\* persistent delete raised.
C17_Witness ==
    /\ chat_call.op = "delete_session"
    /\ session_storage_service
    /\ chat_call.storage = "raises"
    /\ chat_call.in_memory
    /\ chat_call.result

\* C18: a successful process_query grows the session's history by exactly
\* two messages, the query as a human message and then the reply as an AI
\* message; a process_query whose LLM invocation fails raises
\* LLMInvocationError and leaves the session's history as it was.
C18_HistoryGrowsByTwo ==
    chat_call.op = "process_query" =>
        /\ chat_call.status = "ok" =>
              EffectiveHistory(Svc, chat_call.session_id)
                = chat_call.before \o <<HumanMessage(chat_call.query_text),
                                        AIMessage(chat_call.reply)>>
        /\ chat_call.status = "LLMInvocationError" =>
              EffectiveHistory(Svc, chat_call.session_id) = chat_call.before

IsPrefix(a, b) == Len(a) <= Len(b) /\ SubSeq(b, 1, Len(a)) = a

\* C27: persisted history is never shortened by process_query: whatever a
\* process_query step leaves in the session's row of persistent storage
\* extends the history the row held before the step, whether the reads and
\* writes of the step succeed or fail.
C27_PersistedHistoryExtends ==
    [][chat_call'.op = "process_query" /\ chat_calls' = chat_calls + 1 =>
          \A s \in DOMAIN table :
              /\ s \in DOMAIN table'
              /\ IsPrefix(table[s].conversation_history,
                          table'[s].conversation_history)]_vars

\* C28: the stored step of a session changes only through a process_query
\* that carries a confirmed_next_step of 1..6 other than the stored step,
\* and then becomes that step; what the LLM proposes is returned as
\* proposed_next_step and is never stored; the stored step stays in 1..6.
C28_StepOnlyByConfirmation ==
    chat_call.op = "process_query" =>
        LET step == EffectiveStep(Svc, chat_call.session_id) IN
        /\ step \in 1..6
        /\ step # chat_call.step_before =>
               /\ chat_call.confirmed_next_step \in 1..6
               /\ chat_call.confirmed_next_step # chat_call.step_before
               /\ step = chat_call.confirmed_next_step

\* ---------------------------------------------------------------------------
\* Properties of the UI ChatState (SpecUi)
\* ---------------------------------------------------------------------------

\* The requests in flight: posted and not yet answered.
InFlight == {k \in 1..Len(ui_tasks) : ui_tasks[k].pc = "posted"}

\* C29: under every interleaving of the handlers and background tasks of
\* ChatState at most one backend request is in flight, a text written by a
\* request stands only in the AI placeholder appended for that request,
\* and no completing request indexes an empty message list.
C29_OneRequestOwnPlaceholder ==
    /\ Cardinality(InFlight) <= 1
    /\ \A i \in 1..Len(messages) :
           messages[i].writer # 0 =>
               /\ messages[i].is_ai
               /\ messages[i].request = messages[i].writer
    /\ ui_fault # "IndexError on empty list"

\* ---------------------------------------------------------------------------
\* Properties of batch ingestion (SpecBatch)
\* ---------------------------------------------------------------------------

\* Number of chunks the files before file number i added to the result.
RECURSIVE AddedBefore(_)
AddedBefore(i) ==
    IF i <= 1 THEN 0 ELSE AddedBefore(i - 1) + file_log[i - 1].added

\* The part of a result list that file number i added.
Slice(list, i) == SubSeq(list, AddedBefore(i) + 1, AddedBefore(i) + file_log[i].added)

\* The chunk metadata of the batch result, in result order.
BatchMetadatas ==
    IF batch_mode = "process_documents"
    THEN [k \in 1..Len(all_chunk_data) |-> all_chunk_data[k].metadata]
    ELSE all_metadatas

\* The chunk texts of the batch result, in result order.
BatchTexts ==
    IF batch_mode = "process_documents"
    THEN [k \in 1..Len(all_chunk_data) |-> all_chunk_data[k].text]
    ELSE all_documents

\* C4: the chunks a file contributes carry the chunk_index values 1..N in
\* emission order, without gap or repeat, and doc_id "{filename}_{index}"
\* when they come from chunk_single_file; the pieces of a split segment
\* take consecutive indices.
C4_ChunkIndex ==
    /\ Len(BatchMetadatas) = AddedBefore(Len(file_log) + 1)
    /\ \A i \in 1..Len(file_log) :
          \A k \in 1..file_log[i].added :
              /\ Slice(BatchMetadatas, i)[k].chunk_index = k
              /\ batch_mode = "process_documents" =>
                    Slice(BatchMetadatas, i)[k].doc_id = <<file_log[i].file.stem, "_", k>>

\* chunk_single_file cut the second section of a file into two pieces, which
\* took the indices 2 and 3 after the first section's 1.
C4_Witness ==
    /\ batch_mode = "process_documents"
    /\ \E i \in 1..Len(file_log) :
          /\ file_log[i].added = 3
          /\ Slice(BatchMetadatas, i)[1].section = <<"Intro">>
          /\ Slice(BatchMetadatas, i)[2].section = <<"Details">>
          /\ Slice(BatchMetadatas, i)[3].section = <<"Details">>
          /\ Slice(BatchMetadatas, i)[2].chunk_index = 2
          /\ Slice(BatchMetadatas, i)[3].chunk_index = 3

Failed(i) == file_log[i].status \notin {"ok", "skipped"}

\* C6: when process_documents or load_documents_from_directory returns,
\* every file of the batch was handled, in file order, whatever happened to
\* the files before it, and the result is what the per-file call returned
\* for the files that did not fail, each file's chunks complete and in file
\* order.
C6_BatchNotAborted ==
    batch_pc = "returned" =>
        /\ Len(file_log) = Len(file_paths)
        /\ Len(BatchTexts) = AddedBefore(Len(file_log) + 1)
        /\ \A i \in 1..Len(file_log) :
              /\ file_log[i].file = file_paths[i]
              /\ Slice(BatchTexts, i) =
                     IF Failed(i) THEN << >> ELSE file_log[i].returned

\* A batch of three files returned; the second file failed, the first and
\* the third have their chunks in the result.
C6_Witness ==
    /\ batch_pc = "returned"
    /\ Len(file_log) = 3
    /\ file_log[1].added > 0
    /\ Failed(2)
    /\ file_log[3].added > 0
    /\ Len(BatchTexts) = file_log[1].added + file_log[3].added

\* File i went to chunk_single_file.
ChunkedBySingleFile(i) == file_log[i].chunking # "none"

\* An exception left chunk_single_file on file i.
ChunkingRaised(i) == file_log[i].chunking \notin {"none", "ok"}

\* The chunking of file i failed: the converter threw, or an exception left
\* chunk_single_file.
ChunkingFailed(i) ==
    ChunkedBySingleFile(i) /\ (file_log[i].conv.raises \/ ChunkingRaised(i))

\* C7 as stated: a file whose chunking fails contributes no chunk to the
\* batch result nor to the ProcessingResult returned for it.
C7_FailedFileEmpty ==
    \A i \in 1..Len(file_log) : ChunkingFailed(i) => file_log[i].added = 0

\* C7 amended: a file whose conversion throws contributes no chunk; a file
\* on which chunk_single_file raises contributes no chunk to the result of
\* process_documents, while process_document_content chunks it again in the
\* simple mode, so that the ProcessingResult and the result of
\* load_documents_from_directory hold exactly one chunk for it, the whole
\* content under the file name as id, and none only when the simple mode
\* raises as well.
C7_FailedFileFallback ==
    \A i \in 1..Len(file_log) :
        /\ ChunkedBySingleFile(i) /\ file_log[i].conv.raises => file_log[i].added = 0
        /\ ChunkingRaised(i) /\ batch_mode = "process_documents" =>
              Failed(i) /\ file_log[i].added = 0
        /\ ChunkingRaised(i) /\ batch_mode = "load_documents_from_directory" =>
              IF file_log[i].metadata_ok
              THEN /\ file_log[i].status = "ok"
                   /\ Slice(all_documents, i) = <<file_log[i].content>>
                   /\ Slice(all_ids, i) =
                         << <<file_log[i].file.stem, file_log[i].file.ext>> >>
              ELSE Failed(i) /\ file_log[i].added = 0

\* load_documents_from_directory handled a file on which chunk_single_file
\* raised, and the result holds its whole content as one chunk.
C7_Witness ==
    /\ batch_mode = "load_documents_from_directory"
    /\ \E i \in 1..Len(file_log) :
          /\ ChunkingRaised(i)
          /\ file_log[i].added = 1
          /\ Slice(all_documents, i) = <<file_log[i].content>>

=============================================================================
